---- MODULE Spec2Model ----
(***************************************************************************)
(* FusionImg canvas editor: the undo/redo history store (hooks/useHistory),*)
(* the Canvas gesture state machine that writes the item collection        *)
(* through it, and the App's generation tasks.                             *)
(*                                                                         *)
(* Numbers are integers.  The inputs drawn below are chosen so that every  *)
(* division the modelled code performs is exact.                           *)
(***************************************************************************)
EXTENDS Integers, Sequences, FiniteSets, TLC

VARIABLES
    history,            \* useHistory: state.history, the list of snapshots
    index,              \* useHistory: state.index, 0-based as in the code
    canvas,             \* Canvas: its useState/useRef fields, as one record
    app,                \* App: the fields the Canvas reads or sets
    now,                \* Date.now()
    watch,              \* observer: the gesture in progress or just ended
    nEvents,            \* observer: the number of user events so far
    calls,              \* observer: the calls made on the store so far, each
                        \* with the store as it was before the call and
                        \* whether the call invoked onStateChange
    tasks,              \* App: generationTasks, newest first
    running             \* App: the generation functions in flight, each
                        \* with its closure and the await it is stopped at

storeVars == <<history, index>>
uiVars == <<canvas, app, now, watch, nEvents, tasks, running>>

----------------------------------------------------------------------------
(* Bounds *)

\* number of distinct non-empty item collections offered to setState
NumValues == 2
\* number of calls made on a store in the history-store specification
MaxCalls == 5
\* longest history a gesture may start from in the gesture specification
MaxHist == 2
\* most points of a drawing
MaxPoints == 2
\* last value of the clock
MaxClock == 1
\* most items of a collection in the hit-test specification
MaxItems == 2
\* number of user events in the gesture specification
MaxEvents == 5

----------------------------------------------------------------------------
(* Item model (types.ts) *)

\* null, and a present value, of a nullable field
Null == <<>>
Some(v) == <<v>>
The(o) == o[1]

\* item ids: a prefix and a number, as in `draw_${Date.now()}`
Id(prefix, n) == <<prefix, n>>

Point(px, py) == [x |-> px, y |-> py]

ImageItem(id, px, py, w, h, rot) ==
    [id |-> id, type |-> "image", x |-> px, y |-> py,
     width |-> w, height |-> h, rotation |-> rot]

TextItem(id, px, py, w, h, rot, txt) ==
    [id |-> id, type |-> "text", x |-> px, y |-> py,
     width |-> w, height |-> h, rotation |-> rot, text |-> txt]

DrawingItem(id, pts, sw, rot) ==
    [id |-> id, type |-> "drawing", points |-> pts,
     strokeWidth |-> sw, rotation |-> rot]

----------------------------------------------------------------------------
(* Arithmetic.  Half is defined on even numbers only and the trigonometric *)
(* functions on multiples of a quarter turn only: the specifications below *)
(* draw their inputs so that nothing else is asked for.                    *)

Abs(n) == IF n < 0 THEN -n ELSE n
Min2(a, b) == IF a < b THEN a ELSE b
Max2(a, b) == IF a > b THEN a ELSE b
SetMin(S) == CHOOSE m \in S : \A n \in S : m <= n
SetMax(S) == CHOOSE m \in S : \A n \in S : m >= n
IsEven(n) == n % 2 = 0
Half(n) == CASE IsEven(n) -> n \div 2
Divides(d, n) == d > 0 /\ n % d = 0
ExactDiv(n, d) == CASE Divides(d, n) -> n \div d

Cos(deg) ==
    CASE deg % 360 = 0 -> 1 [] deg % 360 = 90 -> 0
      [] deg % 360 = 180 -> -1 [] deg % 360 = 270 -> 0
Sin(deg) ==
    CASE deg % 360 = 0 -> 0 [] deg % 360 = 90 -> 1
      [] deg % 360 = 180 -> 0 [] deg % 360 = 270 -> -1

\* Math.atan2(dy, dx) * 180 / Math.PI, along the axes
OnAxis(dy, dx) == dx = 0 \/ dy = 0
Atan2Deg(dy, dx) ==
    CASE dy = 0 /\ dx >= 0 -> 0
      [] dx = 0 /\ dy > 0 -> 90
      [] dy = 0 /\ dx < 0 -> 180
      [] dx = 0 /\ dy < 0 -> -90

\* Math.round(n / d) * d for d > 0: halves round up
RoundTo(n, d) == ((2 * n + d) \div (2 * d)) * d

----------------------------------------------------------------------------
(* utils/geometry.ts *)

Box(bx, by, w, h) == [x |-> bx, y |-> by, width |-> w, height |-> h]

rotatePoint(point, center, angleDegrees) ==
    LET cos == Cos(angleDegrees)
        sin == Sin(angleDegrees)
        dx == point.x - center.x
        dy == point.y - center.y
    IN Point(dx * cos - dy * sin + center.x, dx * sin + dy * cos + center.y)

\* a mutation of getBoundingBox: the points' extent alone, unpadded
getBoundingBox_Unpadded(item) ==
    IF item.type = "drawing"
    THEN IF Len(item.points) = 0 THEN Box(0, 0, 0, 0)
         ELSE LET xs == {item.points[i].x : i \in 1..Len(item.points)}
                  ys == {item.points[i].y : i \in 1..Len(item.points)}
              IN Box(SetMin(xs), SetMin(ys), SetMax(xs) - SetMin(xs),
                     SetMax(ys) - SetMin(ys))
    ELSE Box(item.x, item.y, item.width, item.height)

getBoundingBox(item) ==
    IF item.type = "drawing"
    THEN IF Len(item.points) = 0 THEN Box(0, 0, 0, 0)
         ELSE LET xs == {item.points[i].x : i \in 1..Len(item.points)}
                  ys == {item.points[i].y : i \in 1..Len(item.points)}
                  padding == Half(item.strokeWidth)
                  minX == SetMin(xs) - padding
                  minY == SetMin(ys) - padding
                  maxX == SetMax(xs) + padding
                  maxY == SetMax(ys) + padding
              IN Box(minX, minY, Max2(item.strokeWidth, maxX - minX),
                     Max2(item.strokeWidth, maxY - minY))
    ELSE Box(item.x, item.y, item.width, item.height)

getCenter(box) == Point(box.x + Half(box.width), box.y + Half(box.height))

\* the four corners of box turned about center
RotatedCorners(box, center, angleDegrees) ==
    {rotatePoint(c, center, angleDegrees) :
        c \in {Point(box.x, box.y), Point(box.x + box.width, box.y),
               Point(box.x, box.y + box.height),
               Point(box.x + box.width, box.y + box.height)}}

\* the min/max box of a set of points
BoxAround(points) ==
    LET xs == {c.x : c \in points}
        ys == {c.y : c \in points}
    IN Box(SetMin(xs), SetMin(ys), SetMax(xs) - SetMin(xs),
           SetMax(ys) - SetMin(ys))

getRotatedBoundingBox(item) ==
    LET box == getBoundingBox(item)
    IN BoxAround(RotatedCorners(box, getCenter(box), item.rotation))

isPointInBox(point, box) ==
    /\ point.x >= box.x
    /\ point.x <= box.x + box.width
    /\ point.y >= box.y
    /\ point.y <= box.y + box.height

\* two boxes overlap
Overlaps(itemBox, rect) ==
    /\ itemBox.x < rect.x + rect.width
    /\ itemBox.x + itemBox.width > rect.x
    /\ itemBox.y < rect.y + rect.height
    /\ itemBox.y + itemBox.height > rect.y

\* a mutation of isItemInSelection: the item must lie inside the rect
isItemInSelection_Inside(item, rect) ==
    LET itemBox == getRotatedBoundingBox(item) IN
    /\ itemBox.x >= rect.x
    /\ itemBox.y >= rect.y
    /\ itemBox.x + itemBox.width <= rect.x + rect.width
    /\ itemBox.y + itemBox.height <= rect.y + rect.height

isItemInSelection(item, rect) == Overlaps(getRotatedBoundingBox(item), rect)

----------------------------------------------------------------------------
(* utils/canvasUtils.ts.  The pixels drawn are not modelled; ctx tells     *)
(* whether the element gave a 2d context.                                  *)

convertDrawingToImageItem(drawing, ctx) ==
    LET box == getBoundingBox(drawing)
    IN IF box.width <= 0 \/ box.height <= 0 THEN Null
       ELSE IF ~ctx THEN Null
       ELSE Some(ImageItem(Id("drawing_img", drawing.id), box.x, box.y,
                           box.width, box.height, 0))

\* The 2d context of createCanvasSnapshot: its current transform is the
\* list of rotations applied and not yet undone by restore(); a rotation by
\* a whole turn is none.  A drawn item is recorded with the transform it
\* was drawn under.
OwnTransform(item) ==
    IF item.rotation % 360 = 0 THEN <<>>
    ELSE <<[center |-> getCenter(getBoundingBox(item)),
            angle |-> item.rotation % 360]>>

DrawOp(item, transform) == [id |-> item.id, transform |-> transform]

\* the loop over itemsToRender: save(), the item's rotation about its
\* centre, the item drawn, restore(); the `continue` of a drawing of fewer
\* than two points skips the restore() and leaves its rotation in force
RECURSIVE RenderItems(_, _, _)
RenderItems(items, transform, loaded) ==
    IF items = <<>> THEN <<>>
    ELSE LET item == Head(items)
             t == transform \o OwnTransform(item)
         IN IF item.type \in {"image", "video"}
            THEN (IF item.id \in loaded THEN <<DrawOp(item, t)>> ELSE <<>>)
                 \o RenderItems(Tail(items), transform, loaded)
            ELSE IF item.type = "drawing" /\ Len(item.points) < 2
            THEN RenderItems(Tail(items), t, loaded)
            ELSE <<DrawOp(item, t)>> \o RenderItems(Tail(items), transform, loaded)

RECURSIVE FilterInSelection(_, _)
FilterInSelection(items, rect) ==
    IF items = <<>> THEN <<>>
    ELSE (IF isItemInSelection(Head(items), rect) THEN <<Head(items)>> ELSE <<>>)
         \o FilterInSelection(Tail(items), rect)

\* createCanvasSnapshot(items, selectionRect): ctx tells whether the
\* element gave a 2d context, loaded is the set of ids of the media items
\* whose element loaded; the others fired onerror
createCanvasSnapshot(items, selectionRect, ctx, loaded) ==
    IF ~ctx THEN [rejected |-> TRUE, drawn |-> <<>>]
    ELSE [rejected |-> FALSE,
          drawn |-> RenderItems(FilterInSelection(items, selectionRect),
                                <<>>, loaded)]

----------------------------------------------------------------------------
(* JSON.stringify, as far as the store's comparison uses it: the item      *)
(* collection is written out as one flat sequence of tokens, item by item  *)
(* and key by key; two collections compare equal iff the sequences are.    *)

Tok(k, s, n) == [key |-> k, str |-> s, num |-> n]

StringifyPoints(pts) ==
    [i \in 1..(2 * Len(pts)) |->
        IF i % 2 = 1 THEN Tok("x", "", pts[(i + 1) \div 2].x)
                     ELSE Tok("y", "", pts[i \div 2].y)]

\* mutant: the comparison looks at the items' ids only
StringifyItem_IdOnly(it) == <<Tok("id", it.id, 0)>>

StringifyItem(it) ==
    <<Tok("{", "", 0), Tok("id", it.id, 0), Tok("type", it.type, 0)>>
    \o (IF it.type = "drawing"
        THEN <<Tok("points", "", Len(it.points))>> \o StringifyPoints(it.points)
             \o <<Tok("strokeWidth", "", it.strokeWidth)>>
        ELSE <<Tok("x", "", it.x), Tok("y", "", it.y),
               Tok("width", "", it.width), Tok("height", "", it.height)>>
             \o (IF it.type = "text" THEN <<Tok("text", it.text, 0)>> ELSE <<>>))
    \o <<Tok("rotation", "", it.rotation), Tok("}", "", 0)>>

RECURSIVE JsonStringify(_)
JsonStringify(v) ==
    IF v = <<>> THEN <<>>
    ELSE StringifyItem(Head(v)) \o JsonStringify(Tail(v))

\* JSON.parse of what JsonStringify wrote: the tokens up to the first
\* closing brace are one item
ParseItem(t) ==
    LET type == t[3].str IN
    IF type = "drawing"
    THEN LET n == t[4].num
         IN DrawingItem(t[2].str,
                        [i \in 1..n |-> Point(t[3 + 2 * i].num, t[4 + 2 * i].num)],
                        t[5 + 2 * n].num, t[6 + 2 * n].num)
    ELSE IF type = "text"
    THEN TextItem(t[2].str, t[4].num, t[5].num, t[6].num, t[7].num, t[9].num,
                  t[8].str)
    ELSE [ImageItem(t[2].str, t[4].num, t[5].num, t[6].num, t[7].num, t[8].num)
             EXCEPT !.type = type]

RECURSIVE JsonParse(_)
JsonParse(toks) ==
    IF toks = <<>> THEN <<>>
    ELSE LET end == CHOOSE i \in 1..Len(toks) :
                        /\ toks[i].key = "}"
                        /\ \A j \in 1..(i - 1) : toks[j].key # "}"
         IN <<ParseItem(SubSeq(toks, 1, end))>>
            \o JsonParse(SubSeq(toks, end + 1, Len(toks)))

----------------------------------------------------------------------------
(* hooks/useHistory *)

\* what the hook returns
state == history[index + 1]
canUndo == index > 0
canRedo == index < Len(history) - 1

\* mutant: no identical-state guard
setStateInternal_NoGuard(currentState, newState, commit) ==
    IF commit
    THEN LET newHistory ==
                Append(SubSeq(currentState.history, 1, currentState.index + 1),
                       newState)
         IN [history |-> newHistory, index |-> Len(newHistory) - 1,
             notified |-> TRUE]
    ELSE [history |-> [currentState.history
                          EXCEPT ![currentState.index + 1] = newState],
          index |-> currentState.index, notified |-> TRUE]

\* mutant: a commit pushes onto the whole history, redo tail included
setStateInternal_NoTrim(currentState, newState, commit) ==
    LET currentHistoryState == currentState.history[currentState.index + 1] IN
    IF JsonStringify(newState) = JsonStringify(currentHistoryState)
    THEN [history |-> currentState.history, index |-> currentState.index,
          notified |-> FALSE]
    ELSE IF commit
    THEN LET newHistory == Append(currentState.history, newState)
         IN [history |-> newHistory, index |-> Len(newHistory) - 1,
             notified |-> TRUE]
    ELSE [history |-> [currentState.history
                          EXCEPT ![currentState.index + 1] = newState],
          index |-> currentState.index, notified |-> TRUE]

\* mutant: onStateChange is invoked before the identical-state guard
setStateInternal_NotifyFirst(currentState, newState, commit) ==
    LET currentHistoryState == currentState.history[currentState.index + 1] IN
    IF JsonStringify(newState) = JsonStringify(currentHistoryState)
    THEN [history |-> currentState.history, index |-> currentState.index,
          notified |-> TRUE]
    ELSE IF commit
    THEN LET newHistory ==
                Append(SubSeq(currentState.history, 1, currentState.index + 1),
                       newState)
         IN [history |-> newHistory, index |-> Len(newHistory) - 1,
             notified |-> TRUE]
    ELSE [history |-> [currentState.history
                          EXCEPT ![currentState.index + 1] = newState],
          index |-> currentState.index, notified |-> TRUE]

\* mutant: a transient update trims the redo tail as a commit does
setStateInternal_TransientTrims(currentState, newState, commit) ==
    LET currentHistoryState == currentState.history[currentState.index + 1]
        trimmed == SubSeq(currentState.history, 1, currentState.index + 1)
    IN
    IF JsonStringify(newState) = JsonStringify(currentHistoryState)
    THEN [history |-> currentState.history, index |-> currentState.index,
          notified |-> FALSE]
    ELSE IF commit
    THEN LET newHistory == Append(trimmed, newState)
         IN [history |-> newHistory, index |-> Len(newHistory) - 1,
             notified |-> TRUE]
    ELSE [history |-> [trimmed EXCEPT ![currentState.index + 1] = newState],
          index |-> currentState.index, notified |-> TRUE]

\* The functional update of setState: from the store's current state, the
\* already evaluated result of `action` and the commit option, the store's
\* next state and whether onStateChange was invoked.
setStateInternal(currentState, newState, commit) ==
    LET currentHistoryState == currentState.history[currentState.index + 1] IN
    IF JsonStringify(newState) = JsonStringify(currentHistoryState)
    THEN [history |-> currentState.history, index |-> currentState.index,
          notified |-> FALSE]
    ELSE IF commit
    THEN LET newHistory ==
                Append(SubSeq(currentState.history, 1, currentState.index + 1),
                       newState)
         IN [history |-> newHistory, index |-> Len(newHistory) - 1,
             notified |-> TRUE]
    ELSE [history |-> [currentState.history
                          EXCEPT ![currentState.index + 1] = newState],
          index |-> currentState.index, notified |-> TRUE]

\* mutant: undo does not stop at the first entry
undoInternal_NoClamp(currentState) ==
    [history |-> currentState.history, index |-> currentState.index - 1,
     notified |-> TRUE]

undoInternal(currentState) ==
    IF currentState.index > 0
    THEN [history |-> currentState.history, index |-> currentState.index - 1,
          notified |-> TRUE]
    ELSE [history |-> currentState.history, index |-> currentState.index,
          notified |-> FALSE]

\* mutant: redo does not stop at the last entry
redoInternal_NoClamp(currentState) ==
    [history |-> currentState.history, index |-> currentState.index + 1,
     notified |-> TRUE]

\* mutant: redo is allowed one step past the last entry's predecessor only
redoInternal_OffByOne(currentState) ==
    IF currentState.index < Len(currentState.history) - 2
    THEN [history |-> currentState.history, index |-> currentState.index + 1,
          notified |-> TRUE]
    ELSE [history |-> currentState.history, index |-> currentState.index,
          notified |-> FALSE]

redoInternal(currentState) ==
    IF currentState.index < Len(currentState.history) - 1
    THEN [history |-> currentState.history, index |-> currentState.index + 1,
          notified |-> TRUE]
    ELSE [history |-> currentState.history, index |-> currentState.index,
          notified |-> FALSE]

store == [history |-> history, index |-> index]
\* the current value of a store
ValueInStore(st) == st.history[st.index + 1]

\* useHistory(initialState, onStateChange)
useHistory(initialState) ==
    /\ history = <<initialState>>
    /\ index = 0

----------------------------------------------------------------------------
(* App: what the Canvas is given (App.tsx) *)

zoom == 1
\* user options as loaded from storage
drawingOptions == [strokeWidth |-> 4]

\* the App and Canvas state a handler runs in and returns
World == [canvas |-> canvas, app |-> app, history |-> history, index |-> index]

\* the `items` prop: the store's current value
Items(w) == w.history[w.index + 1]

\* setItems(updater, {commit}): useHistory.setState; newItems is the
\* updater applied to the store's current value
setItems(w, newItems, commit) ==
    LET r == setStateInternal([history |-> w.history, index |-> w.index],
                              newItems, commit)
    IN [w EXCEPT !.history = r.history, !.index = r.index]

MapItems(items, F(_)) == [i \in 1..Len(items) |-> F(items[i])]

NoMagicFill ==
    [isActive |-> FALSE, targetItemId |-> Null, sourceItemId |-> Null,
     maskDrawing |-> Null]

\* onModeChange: `rendered` is the App state of the last render, which the
\* callback's closure reads
exitModes(rendered, a) ==
    [a EXCEPT !.isDrawingMode = FALSE,
              !.isTextMode = FALSE,
              !.magicFillState =
                  IF rendered.magicFillState.maskDrawing = Null
                  THEN NoMagicFill ELSE @]

\* onSelectionChange
handleSelectionChange(rendered, a, rect, newSelectedItems) ==
    IF \/ rendered.imagePreview # Null
       \/ rendered.magicFillState.isActive
       \/ rendered.expansionState.isActive
    THEN a
    ELSE [a EXCEPT !.expansionGenerationInfo = Null,
                   !.selectionRect = rect,
                   !.selectedItems = newSelectedItems]

\* onMaskUpdate
onMaskUpdate(a, mask) == [a EXCEPT !.magicFillState.maskDrawing = mask]

\* onExpansionAreaDefined
handleExpansionAreaDefined(rendered, a, rect, direction) ==
    IF rendered.expansionState.targetItem = Null THEN a
    ELSE [a EXCEPT !.expansionGenerationInfo =
                       Some([targetItem |-> The(rendered.expansionState.targetItem),
                             rect |-> rect, direction |-> direction]),
                   !.selectionRect = Some(rect),
                   !.selectedItems = <<The(rendered.expansionState.targetItem)>>,
                   !.expansionState = [isActive |-> FALSE, targetItem |-> Null]]

\* a mutation of PaintMask: the mask is also put into the item collection
PaintMask_IntoItems(w, mask) ==
    setItems([w EXCEPT !.app = onMaskUpdate(w.app, Some(mask))],
             Append(Items(w), mask), FALSE)

\* the Canvas hands the mask drawing to the App
PaintMask(w, mask) == [w EXCEPT !.app = onMaskUpdate(w.app, Some(mask))]

\* selectedItems.filter(i => i.type === 'image')
RECURSIVE ImagesOf(_)
ImagesOf(items) ==
    IF items = <<>> THEN <<>>
    ELSE (IF Head(items).type = "image" THEN <<Head(items)>> ELSE <<>>)
         \o ImagesOf(Tail(items))

\* the toolbar's magic-fill toggle, as a function of the App state
SetMagicFillMode(a) ==
    LET newMagicFillMode == ~a.magicFillState.isActive
        imageItems == ImagesOf(a.selectedItems)
        enterMagicMode(target, source) ==
            [a EXCEPT !.magicFillState =
                          [isActive |-> TRUE, targetItemId |-> Some(target.id),
                           sourceItemId |-> source, maskDrawing |-> Null],
                      !.isDrawingMode = FALSE,
                      !.isTextMode = FALSE,
                      !.selectionRect = Null]
        area1 == imageItems[1].width * imageItems[1].height
        area2 == imageItems[2].width * imageItems[2].height
    IN IF newMagicFillMode /\ Len(imageItems) = 1
       THEN enterMagicMode(imageItems[1], Null)
       ELSE IF newMagicFillMode /\ Len(imageItems) = 2
       THEN IF area1 >= area2
            THEN enterMagicMode(imageItems[1], Some(imageItems[2].id))
            ELSE enterMagicMode(imageItems[2], Some(imageItems[1].id))
       ELSE [a EXCEPT !.magicFillState = NoMagicFill]

ghostedItemIds(a) ==
    IF a.imagePreview = Null THEN {}
    ELSE {The(a.imagePreview).itemsToReplace[i].id :
             i \in 1..Len(The(a.imagePreview).itemsToReplace)}

----------------------------------------------------------------------------
(* components/Canvas.tsx.  A pointer event e carries clientX, clientY,     *)
(* button, shiftKey and the clock value now; the canvas element's corner   *)
(* is at the client origin.                                                *)

getCanvasPoint(w, e) ==
    Point((e.clientX - w.app.pan.x) \div zoom, (e.clientY - w.app.pan.y) \div zoom)

\* the test of findItemAtPoint's loop body
PointHitsItem(point, item) ==
    LET box == getBoundingBox(item)
    IN isPointInBox(rotatePoint(point, getCenter(box), -item.rotation), box)

\* a mutation of findItemAtPoint: ghosted items are not skipped
RECURSIVE findItemFrom_NoSkip(_, _, _)
findItemFrom_NoSkip(w, point, i) ==
    IF i < 1 THEN Null
    ELSE IF PointHitsItem(point, Items(w)[i]) THEN Some(Items(w)[i])
    ELSE findItemFrom_NoSkip(w, point, i - 1)

findItemAtPoint_NoSkip(w, point) == findItemFrom_NoSkip(w, point, Len(Items(w)))

\* the loop of findItemAtPoint, from position i down to the first
RECURSIVE findItemFrom(_, _, _)
findItemFrom(w, point, i) ==
    IF i < 1 THEN Null
    ELSE IF Items(w)[i].id \in ghostedItemIds(w.app)
    THEN findItemFrom(w, point, i - 1)
    ELSE IF PointHitsItem(point, Items(w)[i]) THEN Some(Items(w)[i])
    ELSE findItemFrom(w, point, i - 1)

findItemAtPoint(w, point) == findItemFrom(w, point, Len(Items(w)))

HasLetter(handle, letter) ==
    CASE letter = "n" -> handle \in {"n", "nw", "ne"}
      [] letter = "s" -> handle \in {"s", "sw", "se"}
      [] letter = "e" -> handle \in {"e", "ne", "se", "rotate"}
      [] letter = "w" -> handle \in {"w", "nw", "sw"}

\* handleInteractionStart(e, handle, itemOrBox): item is the item the
\* control box was drawn for, Null for the expansion box
handleInteractionStart(w, e, handle, item) ==
    LET c0 == [w.canvas EXCEPT !.gestureDidCommit = FALSE,
                               !.startPoint = Some(Point(e.clientX, e.clientY)),
                               !.activeHandle = Some(handle)]
    IN
    IF w.app.expansionState.isActive
    THEN LET box == getRotatedBoundingBox(The(w.app.expansionState.targetItem)) IN
         [w EXCEPT !.canvas =
             [c0 EXCEPT !.interactionMode = "expanding",
                        !.originalItemState = Some([box |-> box]),
                        !.expansionGhostRect = Some(box)]]
    ELSE IF item = Null THEN [w EXCEPT !.canvas = c0]
    ELSE IF handle = "rotate"
    THEN LET box == getBoundingBox(The(item))
             center == getCenter(box)
         IN [w EXCEPT !.canvas =
                [c0 EXCEPT !.currentItem = item,
                           !.interactionMode = "rotating",
                           !.originalItemState =
                               Some([center |-> Point(center.x * zoom + w.app.pan.x,
                                                      center.y * zoom + w.app.pan.y),
                                     initialRotation |-> The(item).rotation])]]
    ELSE LET box == getBoundingBox(The(item))
             center == getCenter(box)
         IN [w EXCEPT !.canvas =
                [c0 EXCEPT !.currentItem = item,
                           !.interactionMode = "resizing",
                           !.originalItemState =
                               Some([item |-> The(item), box |-> box,
                                     center |-> center,
                                     oppositeCorner |->
                                         rotatePoint(
                                             Point(box.x + (IF HasLetter(handle, "e")
                                                            THEN 0 ELSE box.width),
                                                   box.y + (IF HasLetter(handle, "s")
                                                            THEN 0 ELSE box.height)),
                                             center, The(item).rotation)])]]

\* handleMouseDown(e), for an event whose target is not the text area
handleMouseDown(w, e) ==
    LET c0 == [w.canvas EXCEPT !.editingTextItem = Null,
                               !.gestureDidCommit = FALSE]
        w0 == [w EXCEPT !.canvas = c0]
        point == getCanvasPoint(w, e)
        mf == w.app.magicFillState
        targets == {i \in 1..Len(Items(w)) :
                       mf.targetItemId = Some(Items(w)[i].id)}
        clickedItem == findItemAtPoint(w, point)
    IN
    IF w.app.expansionState.isActive THEN w0
    ELSE IF e.button = 1 \/ (e.button = 0 /\ w.canvas.isSpacePanning)
    THEN [w0 EXCEPT !.canvas.interactionMode = "panning",
                    !.canvas.startPoint =
                        Some(Point(e.clientX - w.app.pan.x, e.clientY - w.app.pan.y))]
    ELSE IF e.button # 0 THEN w0
    ELSE IF /\ mf.isActive
            /\ targets # {}
            /\ isPointInBox(point,
                   getRotatedBoundingBox(Items(w)[SetMin(targets)]))
    THEN PaintMask([w0 EXCEPT !.canvas.interactionMode = "magicFill"],
                   DrawingItem(Id("mask", e.now), <<point>>, 30, 0))
    ELSE IF w.app.isDrawingMode
    THEN LET newDrawing == DrawingItem(Id("draw", e.now), <<point>>,
                                       drawingOptions.strokeWidth, 0)
         IN setItems([w0 EXCEPT !.canvas.interactionMode = "drawing",
                                !.canvas.currentDrawing = Some(newDrawing)],
                     Append(Items(w), newDrawing), TRUE)
    ELSE IF w.app.isTextMode
    THEN LET newTextItem == TextItem(Id("text", e.now), point.x - 100,
                                     point.y - 25, 200, 50, 0, "")
         IN setItems([w0 EXCEPT !.canvas.editingTextItem = Some(newTextItem),
                                !.app = exitModes(w.app, w.app)],
                     Append(Items(w), newTextItem), TRUE)
    ELSE IF clickedItem # Null
    THEN [w0 EXCEPT !.app = handleSelectionChange(w.app, exitModes(w.app, w.app),
                                                  Null, <<The(clickedItem)>>),
                    !.canvas.singlySelectedItemId = Some(The(clickedItem).id),
                    !.canvas.interactionMode = "moving",
                    !.canvas.currentItem = clickedItem,
                    !.canvas.startPoint = Some(point),
                    !.canvas.originalItemState = clickedItem]
    ELSE [w0 EXCEPT !.app = handleSelectionChange(w.app, exitModes(w.app, w.app),
                                                  Null, <<>>),
                    !.canvas.singlySelectedItemId = Null,
                    !.canvas.interactionMode = "selecting",
                    !.canvas.startPoint = Some(point),
                    !.canvas.transientSelectionRect =
                        Some(Box(point.x, point.y, 0, 0))]

\* a mutation of MovedItem: the travel is added to the item as it is now
MovedItem_Drift(item, originalItem, total_dx, total_dy, shouldSnap, spacing) ==
    IF item.type = "drawing"
    THEN [item EXCEPT !.points =
            [i \in 1..Len(item.points) |->
                Point(item.points[i].x + total_dx, item.points[i].y + total_dy)]]
    ELSE [item EXCEPT !.x = @ + total_dx, !.y = @ + total_dy]

\* a mutation of MovedItem: the travel is rounded, not the new place
MovedItem_SnapDelta(item, originalItem, total_dx, total_dy, shouldSnap, spacing) ==
    LET final_dx == IF shouldSnap THEN RoundTo(total_dx, spacing) ELSE total_dx
        final_dy == IF shouldSnap THEN RoundTo(total_dy, spacing) ELSE total_dy
    IN IF originalItem.type = "drawing"
       THEN [item EXCEPT !.points =
               [i \in 1..Len(originalItem.points) |->
                   Point(originalItem.points[i].x + final_dx,
                         originalItem.points[i].y + final_dy)]]
       ELSE [item EXCEPT !.x = originalItem.x + final_dx,
                         !.y = originalItem.y + final_dy]

\* the moved item of a move step: originalItem shifted by the pointer's
\* total travel, snapped to the grid when asked
MovedItem(item, originalItem, total_dx, total_dy, shouldSnap, spacing) ==
    IF originalItem.type \in {"image", "text", "video"}
    THEN LET newX == originalItem.x + total_dx
             newY == originalItem.y + total_dy
         IN [item EXCEPT !.x = IF shouldSnap THEN RoundTo(newX, spacing)
                                             ELSE newX,
                         !.y = IF shouldSnap THEN RoundTo(newY, spacing)
                                             ELSE newY]
    ELSE IF originalItem.type = "drawing"
    THEN LET originalBox == getBoundingBox(originalItem)
             snappedX == RoundTo(originalBox.x + total_dx, spacing)
             snappedY == RoundTo(originalBox.y + total_dy, spacing)
             final_dx == IF shouldSnap THEN snappedX - originalBox.x ELSE total_dx
             final_dy == IF shouldSnap THEN snappedY - originalBox.y ELSE total_dy
         IN [item EXCEPT !.points =
                [i \in 1..Len(originalItem.points) |->
                    Point(originalItem.points[i].x + final_dx,
                          originalItem.points[i].y + final_dy)]]
    ELSE item

\* the width and height a resize step computes, before the floor of 10
ResizeDims(orig, point, shiftKey) ==
    LET vec == Point(point.x - orig.oppositeCorner.x,
                     point.y - orig.oppositeCorner.y)
        unrotatedVec == rotatePoint(vec, Point(0, 0), -orig.item.rotation)
        w0 == Abs(unrotatedVec.x)
        h0 == Abs(unrotatedVec.y)
        wider == IF h0 = 0 THEN w0 > 0
                 ELSE w0 * orig.box.height > orig.box.width * h0
    IN IF shiftKey /\ orig.item.type \in {"image", "video"}
       THEN IF wider
            THEN [width |-> w0,
                  height |-> ExactDiv(w0 * orig.box.height, orig.box.width)]
            ELSE [width |-> ExactDiv(h0 * orig.box.width, orig.box.height),
                  height |-> h0]
       ELSE [width |-> w0, height |-> h0]

MinResizeSize == 10

\* a mutation of TooSmall: no floor
TooSmall_Never(dims) == FALSE

\* the size a resize step is turned down for
TooSmall(dims) == dims.width < MinResizeSize \/ dims.height < MinResizeSize

\* the resized item of an accepted resize step
ResizedItem(item, orig, newCenter, newWidth, newHeight) ==
    IF item.type \in {"image", "text", "video"}
    THEN [item EXCEPT !.x = newCenter.x - Half(newWidth),
                      !.y = newCenter.y - Half(newHeight),
                      !.width = newWidth,
                      !.height = newHeight]
    ELSE IF item.type = "drawing"
    THEN [item EXCEPT !.points =
            [i \in 1..Len(item.points) |->
                Point(ExactDiv((item.points[i].x - orig.center.x) * newWidth,
                               orig.box.width) + newCenter.x,
                      ExactDiv((item.points[i].y - orig.center.y) * newHeight,
                               orig.box.height) + newCenter.y)]]
    ELSE item

\* const commit = !gestureDidCommit.current
FirstMoveCommits(gestureDidCommit) == ~gestureDidCommit

\* a mutation of ExpandStep: the ghost rect is written into the target item
ExpandStep_IntoItems(w, point) ==
    setItems(w,
             MapItems(Items(w),
                      LAMBDA item : IF item.type = "image"
                                    THEN [item EXCEPT !.width = @ + Abs(point.x)]
                                    ELSE item),
             TRUE)

\* the expanding step of handleMouseMove: the ghost rect for the pointer
ExpandStep(w, point) ==
    LET c == w.canvas
        originalBox == The(c.originalItemState).box
        h == The(c.activeHandle)
        newY == Min2(point.y, originalBox.y)
        newX == Min2(point.x, originalBox.x)
        height1 == IF HasLetter(h, "n")
                   THEN originalBox.height + (originalBox.y - newY)
                   ELSE originalBox.height
        height2 == IF HasLetter(h, "s")
                   THEN Max2(originalBox.height, point.y - originalBox.y)
                   ELSE height1
        width1 == IF HasLetter(h, "w")
                  THEN originalBox.width + (originalBox.x - newX)
                  ELSE originalBox.width
        width2 == IF HasLetter(h, "e")
                  THEN Max2(originalBox.width, point.x - originalBox.x)
                  ELSE width1
    IN [w EXCEPT !.canvas.expansionGhostRect =
           Some(Box(IF HasLetter(h, "w") THEN newX ELSE originalBox.x,
                    IF HasLetter(h, "n") THEN newY ELSE originalBox.y,
                    width2, height2))]

\* handleMouseMove(e); the hover highlight is not modelled
handleMouseMove(w, e) ==
    LET point == getCanvasPoint(w, e)
        c == w.canvas
        mode == c.interactionMode
        commit == FirstMoveCommits(c.gestureDidCommit)
        Committed(w1) ==
            [w1 EXCEPT !.canvas.gestureDidCommit = IF commit THEN TRUE ELSE @]
    IN
    IF mode = "panning" /\ c.startPoint # Null
    THEN [w EXCEPT !.app.pan = Point(e.clientX - The(c.startPoint).x,
                                     e.clientY - The(c.startPoint).y)]
    ELSE IF mode = "magicFill" /\ w.app.magicFillState.maskDrawing # Null
    THEN PaintMask(w, [The(w.app.magicFillState.maskDrawing)
                          EXCEPT !.points = Append(@, point)])
    ELSE IF mode = "drawing" /\ c.currentDrawing # Null
    THEN LET updatedDrawing ==
                [The(c.currentDrawing) EXCEPT !.points = Append(@, point)]
         IN setItems([w EXCEPT !.canvas.currentDrawing = Some(updatedDrawing)],
                     MapItems(Items(w),
                              LAMBDA item : IF item.id = updatedDrawing.id
                                            THEN updatedDrawing ELSE item),
                     FALSE)
    ELSE IF mode = "selecting" /\ c.startPoint # Null
    THEN LET sp == The(c.startPoint) IN
         [w EXCEPT !.canvas.transientSelectionRect =
             Some(Box(Min2(sp.x, point.x), Min2(sp.y, point.y),
                      Abs(point.x - sp.x), Abs(point.y - sp.y)))]
    ELSE IF /\ mode = "moving" /\ c.currentItem # Null
            /\ c.startPoint # Null /\ c.originalItemState # Null
    THEN LET total_dx == point.x - The(c.startPoint).x
             total_dy == point.y - The(c.startPoint).y
             shouldSnap == w.app.gridOptions.isVisible /\ ~e.shiftKey
         IN Committed(setItems(w,
                MapItems(Items(w),
                    LAMBDA item :
                        IF item.id # The(c.currentItem).id THEN item
                        ELSE MovedItem(item, The(c.originalItemState),
                                       total_dx, total_dy, shouldSnap,
                                       w.app.gridOptions.spacing)),
                commit))
    ELSE IF mode = "rotating" /\ c.currentItem # Null /\ c.startPoint # Null
    THEN LET center == The(c.originalItemState).center
             initialRotation == The(c.originalItemState).initialRotation
             sp == The(c.startPoint)
             startAngle == Atan2Deg(sp.y - center.y, sp.x - center.x)
             currentAngle == Atan2Deg(e.clientY - center.y, e.clientX - center.x)
             angleDiff == currentAngle - startAngle
         IN Committed(setItems(w,
                MapItems(Items(w),
                    LAMBDA i :
                        IF i.id = The(c.currentItem).id
                        THEN [i EXCEPT !.rotation = initialRotation + angleDiff]
                        ELSE i),
                commit))
    ELSE IF /\ mode = "expanding" /\ c.activeHandle # Null
            /\ c.originalItemState # Null
    THEN ExpandStep(w, point)
    ELSE IF /\ mode = "resizing" /\ c.currentItem # Null
            /\ c.startPoint # Null /\ c.activeHandle # Null
    THEN LET orig == The(c.originalItemState)
             dims == ResizeDims(orig, point, e.shiftKey)
             newCenter == Point(Half(orig.oppositeCorner.x + point.x),
                                Half(orig.oppositeCorner.y + point.y))
         IN IF TooSmall(dims) THEN w
            ELSE Committed(setItems(w,
                    MapItems(Items(w),
                        LAMBDA item :
                            IF item.id # The(c.currentItem).id THEN item
                            ELSE ResizedItem(item, orig, newCenter,
                                             dims.width, dims.height)),
                    commit))
    ELSE w

\* items.filter(item => isItemInSelection(item, rect))
RECURSIVE ItemsInSelection(_, _)
ItemsInSelection(items, rect) ==
    IF items = <<>> THEN <<>>
    ELSE LET rest == ItemsInSelection(Tail(items), rect)
         IN IF isItemInSelection(Head(items), rect)
            THEN <<Head(items)>> \o rest ELSE rest

SelectionThreshold == 5

\* a mutation of ResetGesture: the original-item snapshot is kept
ResetGesture_KeepsSnapshot(c) ==
    [c EXCEPT !.interactionMode = "none",
              !.startPoint = Null,
              !.currentItem = Null,
              !.currentDrawing = Null,
              !.transientSelectionRect = Null,
              !.activeHandle = Null]

\* the setters that end handleMouseUp
ResetGesture(c) ==
    [c EXCEPT !.interactionMode = "none",
              !.startPoint = Null,
              !.currentItem = Null,
              !.currentDrawing = Null,
              !.transientSelectionRect = Null,
              !.activeHandle = Null,
              !.originalItemState = Null]

\* handleMouseUp(e), also wired to onMouseLeave
handleMouseUp(w, e) ==
    LET c == w.canvas
        mode == c.interactionMode
        expanded == /\ mode = "expanding" /\ c.expansionGhostRect # Null
                    /\ c.activeHandle # Null
        a1 == IF expanded
              THEN handleExpansionAreaDefined(w.app, w.app,
                       The(c.expansionGhostRect), The(c.activeHandle))
              ELSE w.app
        marquee == mode = "selecting" /\ c.transientSelectionRect # Null
        rect == The(c.transientSelectionRect)
        selected == ItemsInSelection(Items(w), rect)
        boxes == {getRotatedBoundingBox(selected[i]) : i \in 1..Len(selected)}
        minX == SetMin({b.x : b \in boxes})
        minY == SetMin({b.y : b \in boxes})
        maxX == SetMax({b.x + b.width : b \in boxes})
        maxY == SetMax({b.y + b.height : b \in boxes})
        found == /\ Len(selected) > 0
                 /\ rect.width > SelectionThreshold
                 /\ rect.height > SelectionThreshold
        a2 == IF ~marquee THEN a1
              ELSE IF found
              THEN handleSelectionChange(w.app, a1,
                       Some(Box(minX, minY, maxX - minX, maxY - minY)), selected)
              ELSE handleSelectionChange(w.app, a1, Null, <<>>)
    IN
    IF mode = "panning" /\ e.button = 0 /\ c.isSpacePanning THEN w
    ELSE [w EXCEPT
            !.app = a2,
            !.canvas = ResetGesture(
                [c EXCEPT
                    !.gestureDidCommit = FALSE,
                    !.expansionGhostRect = IF expanded THEN Null ELSE @,
                    !.singlySelectedItemId =
                        IF marquee /\ found THEN Null ELSE @])]

\* the window's key handlers for the space bar
handleKeyDown(w) ==
    IF ~w.canvas.isSpacePanning
    THEN [w EXCEPT !.canvas.isSpacePanning = TRUE] ELSE w

handleKeyUp(w) ==
    [w EXCEPT !.canvas.isSpacePanning = FALSE,
              !.canvas.interactionMode =
                  IF @ = "panning" THEN "none" ELSE @]

----------------------------------------------------------------------------
(* App: persistence (App.tsx).  localStorage holds null or the string last *)
(* written under the key canvasItems.                                      *)

\* items.filter(item => item.type !== 'video')
RECURSIVE NonVideo(_)
NonVideo(items) ==
    IF items = <<>> THEN <<>>
    ELSE (IF Head(items).type # "video" THEN <<Head(items)>> ELSE <<>>)
         \o NonVideo(Tail(items))

loadInitialItems(localStorage) ==
    IF localStorage # Null THEN NonVideo(JsonParse(The(localStorage)))
    ELSE <<>>

\* a mutation of handleSave: the whole collection is written
handleSave_AllItems(items) == Some(JsonStringify(items))

\* what handleSave writes under canvasItems
handleSave(items) == Some(JsonStringify(NonVideo(items)))

----------------------------------------------------------------------------
(* App: generation tasks (App.tsx).  A prompt is null or a string; of the  *)
(* strings, the empty one, a blank one and a worded one behave differently.*)
(* A log entry is kept by its type.  The progress messages the collaborator*)
(* may send while it generates are not modelled.                           *)

Prompts == {"", " ", "a prompt"}

\* String.prototype.trim
trim(s) == IF s = " " THEN "" ELSE s

\* !prompt
Falsy(prompt) == prompt = Null \/ The(prompt) = ""

\* the key is configured
isApiKeyConfigured == TRUE

\* the App state the generation functions read and write
Gen == [app |-> app, history |-> history, index |-> index, tasks |-> tasks]

initialTask(taskId, type, rect) ==
    [id |-> taskId, type |-> type, status |-> "interpreting",
     log |-> <<"status">>, selectionRect |-> rect, error |-> Null]

\* the `updates` argument of updateTask
Log(type) == [status |-> Null, error |-> Null, logEntry |-> Some(type)]
StatusLog(status, type) ==
    [status |-> Some(status), error |-> Null, logEntry |-> Some(type)]

\* a mutation of updateTask: the update is applied to every task of the list
updateTask_AllTasks(g, taskId, updates) ==
    [g EXCEPT !.tasks =
        [k \in 1..Len(@) |->
            [@[k] EXCEPT
                !.status = IF updates.status = Null THEN @
                           ELSE The(updates.status),
                !.error = IF updates.error = Null THEN @ ELSE updates.error,
                !.log = IF updates.logEntry = Null THEN @
                        ELSE Append(@, The(updates.logEntry))]]]

updateTask(g, taskId, updates) ==
    [g EXCEPT !.tasks =
        [k \in 1..Len(@) |->
            IF @[k].id = taskId
            THEN [@[k] EXCEPT
                     !.status = IF updates.status = Null THEN @
                                ELSE The(updates.status),
                     !.error = IF updates.error = Null THEN @
                               ELSE updates.error,
                     !.log = IF updates.logEntry = Null THEN @
                             ELSE Append(@, The(updates.logEntry))]
            ELSE @[k]]]

\* setGenerationTasks(prev => [initialTask, ...prev]), after the panel has
\* been opened
AddTask(g, task) ==
    [g EXCEPT !.app.isPanelOpen = TRUE, !.tasks = <<task>> \o @]

\* a call of one of the four asynchronous functions: its task, what its
\* closure holds, and the await it is suspended at
Run(taskId, kind, prompt, itemsForTask, rect, targetItem) ==
    [taskId |-> taskId, kind |-> kind, pc |-> "start", prompt |-> prompt,
     itemsForTask |-> itemsForTask, rect |-> rect, targetItem |-> targetItem]

\* what a stretch of such a function leaves: the state, and the call if it
\* is suspended again
Returned(g) == [g |-> g, run |-> Null]
Awaiting(g, r, pc) == [g |-> g, run |-> Some([r EXCEPT !.pc = pc])]

\* a mutation of catchError: the failed task also empties the item
\* collection
catchError_ClearsItems(g, r) ==
    setItems(updateTask(g, r.taskId,
                 [status |-> Some("error"), error |-> Some("message"),
                  logEntry |-> Some("result")]),
             <<>>, TRUE)

\* the catch block of the four functions
catchError(g, r) ==
    updateTask(g, r.taskId,
        [status |-> Some("error"), error |-> Some("message"),
         logEntry |-> Some("result")])

RECURSIVE WithoutIds(_, _)
WithoutIds(items, ids) ==
    IF items = <<>> THEN <<>>
    ELSE (IF Head(items).id \in ids THEN <<>> ELSE <<Head(items)>>)
         \o WithoutIds(Tail(items), ids)

IdsOf(items) == {items[i].id : i \in 1..Len(items)}

\* prev.map(item => item.id === targetId ? newItem : item)
Replaced(items, targetId, newItem) ==
    [i \in 1..Len(items) |->
        IF items[i].id = targetId THEN newItem ELSE items[i]]

\* `gen_${taskId}`, `vid_${taskId}`
GenId(prefix, taskId) == Id(prefix, taskId[2])

startImageGeneration(g, t, prompt, itemsForTask, rectForTask) ==
    IF ~isApiKeyConfigured THEN Returned(g)
    ELSE IF g.app.imagePreview # Null
    THEN Returned([g EXCEPT !.app.isPanelOpen = TRUE])
    ELSE LET taskId == Id("task", t)
         IN Awaiting(updateTask(AddTask(g, initialTask(taskId, "standard", rectForTask)),
                                taskId, Log("status")),
                     Run(taskId, "image", prompt, itemsForTask, rectForTask, Null),
                     "createCanvasSnapshot")

startVideoGeneration(g, t, prompt, itemsForTask, rectForTask) ==
    IF ~isApiKeyConfigured THEN Returned(g)
    ELSE IF g.app.imagePreview # Null
    THEN Returned([g EXCEPT !.app.isPanelOpen = TRUE])
    ELSE LET taskId == Id("task", t)
         IN Awaiting(updateTask(AddTask(g, initialTask(taskId, "video", rectForTask)),
                                taskId, Log("status")),
                     Run(taskId, "video", prompt, itemsForTask, rectForTask, Null),
                     "createCanvasSnapshot")

\* items.find(item => item.id === id)
Find(items, id) ==
    LET at == {i \in 1..Len(items) : items[i].id = id}
    IN IF at = {} THEN Null ELSE Some(items[SetMin(at)])

startMagicFillGeneration(g, t, prompt) ==
    LET mf == g.app.magicFillState
        targetItem == Find(Items(g), The(mf.targetItemId))
        taskId == Id("task", t)
    IN IF ~isApiKeyConfigured \/ mf.targetItemId = Null \/ mf.maskDrawing = Null
       THEN Returned(g)
       ELSE IF targetItem = Null THEN Returned(g)
       ELSE Awaiting(
                updateTask(
                    [AddTask(g, initialTask(taskId, "magic-fill",
                                 getRotatedBoundingBox(The(targetItem))))
                        EXCEPT !.app.magicFillState = NoMagicFill],
                    taskId, Log("status")),
                Run(taskId, "magic-fill", Some(prompt), <<>>,
                    getRotatedBoundingBox(The(targetItem)), targetItem),
                "createCanvasSnapshot")

startExpansionGeneration(g, t, prompt, info) ==
    IF ~isApiKeyConfigured THEN Returned(g)
    ELSE LET taskId == Id("task", t)
         IN Awaiting(updateTask(AddTask(g, initialTask(taskId, "standard", info.rect)),
                                taskId, Log("status")),
                     Run(taskId, "expansion", Some(prompt), <<>>, info.rect,
                         Some(info.targetItem)),
                     "createImageForOutpainting")

\* image and video, from the prompt on: finalPrompt is the trimmed prompt
afterPrompt(g, r, finalPrompt) ==
    IF finalPrompt = "" THEN Returned(catchError(g, r))
    ELSE IF r.kind = "image"
    THEN Awaiting(updateTask(g, r.taskId, StatusLog("generating", "status")),
                  r, "getResizedImageItem")
    ELSE Awaiting(updateTask(updateTask(g, r.taskId,
                                 StatusLog("generating", "status")),
                             r.taskId, Log("status")),
                  r, "generateVideo")

\* the expanded image, put in the target's place
expandedImageItem(r) ==
    [The(r.targetItem) EXCEPT !.id = GenId("gen", r.taskId),
                              !.x = r.rect.x, !.y = r.rect.y,
                              !.width = r.rect.width,
                              !.height = r.rect.height]

\* the function goes on after the promise it awaits has resolved to `value`
resume(g, r, value) ==
    CASE r.pc = "createCanvasSnapshot" /\ r.kind \in {"image", "video"} ->
            IF Len(r.itemsForTask) > 0 \/ Falsy(r.prompt)
            THEN Awaiting(updateTask(g, r.taskId, Log("status")), r, "interpretCanvas")
            ELSE afterPrompt(updateTask(g, r.taskId, Log("prompt")), r,
                             trim(The(r.prompt)))
      [] r.pc = "createCanvasSnapshot" /\ r.kind = "magic-fill" ->
            Awaiting(g, r, "interpretMagicFill")
      [] r.pc = "interpretCanvas" /\ r.kind \in {"image", "video"} ->
            afterPrompt(updateTask(g, r.taskId, Log("prompt")), r, trim(value))
      [] r.pc = "getResizedImageItem" ->
            Awaiting(g, r, "convertDrawingToImageItem")
      [] r.pc = "convertDrawingToImageItem" ->
            Awaiting(updateTask(updateTask(g, r.taskId, Log("status")),
                                r.taskId, Log("status")),
                     r, "generateImage")
      [] r.pc = "generateImage" ->
            Awaiting(updateTask(g, r.taskId, StatusLog("completed", "result")),
                     r, "onload")
      [] r.pc = "generateVideo" ->
            Awaiting(updateTask(g, r.taskId, StatusLog("completed", "result")),
                     r, "onloadedmetadata")
      [] r.pc = "interpretMagicFill" ->
            Awaiting(updateTask(updateTask(g, r.taskId, Log("prompt")),
                                r.taskId, StatusLog("generating", "status")),
                     r, "createMaskImageFromDrawing")
      [] r.pc = "createMaskImageFromDrawing" ->
            Awaiting(updateTask(g, r.taskId, Log("status")), r, "editImageWithMask")
      [] r.pc = "editImageWithMask" ->
            Awaiting(updateTask(updateTask(g, r.taskId, Log("status")),
                                r.taskId, StatusLog("completed", "result")),
                     r, "onload")
      [] r.pc = "createImageForOutpainting" ->
            Awaiting(updateTask(g, r.taskId, StatusLog("interpreting", "status")),
                     r, "interpretCanvas")
      [] r.pc = "interpretCanvas" /\ r.kind = "expansion" ->
            IF trim(value) = ""
            THEN Returned(catchError(updateTask(g, r.taskId, Log("prompt")), r))
            ELSE Awaiting(updateTask(updateTask(g, r.taskId, Log("prompt")),
                                     r.taskId, StatusLog("generating", "status")),
                          r, "generateOutpaintedImage")
      [] r.pc = "generateOutpaintedImage" ->
            Returned(updateTask(
                setItems(g, Replaced(Items(g), The(r.targetItem).id,
                                     expandedImageItem(r)), TRUE),
                r.taskId, StatusLog("completed", "result")))

\* the awaits whose promise is a call to the AI collaborator
AiCalls == {"interpretCanvas", "interpretMagicFill", "generateImage",
            "generateVideo", "editImageWithMask", "generateOutpaintedImage"}

\* the positions a call is left at with nothing to await but the decoding
\* of its result
Decoding == {"onload", "onloadedmetadata"}

\* the promise a function awaits is rejected
reject(g, r) == Returned(catchError(g, r))

\* the new video's box: the video's own size fitted into the task's area
newVideoBox(rect, videoWidth, videoHeight) ==
    LET w0 == IF rect.width > 0 THEN Min2(videoWidth, rect.width)
              ELSE Min2(videoWidth, 512)
        h0 == ExactDiv(w0 * videoHeight, videoWidth)
        clamp == rect.height > 0 /\ h0 > rect.height
        newHeight == IF clamp THEN rect.height ELSE h0
        newWidth == IF clamp THEN ExactDiv(rect.height * videoWidth, videoHeight)
                    ELSE w0
    IN Box(rect.x + Half(rect.width - newWidth),
           rect.y + Half(rect.height - newHeight), newWidth, newHeight)

\* img.onload / videoElement.onloadedmetadata: the result has been decoded
onload(g, r, videoWidth, videoHeight) ==
    CASE r.kind = "image" ->
            [g EXCEPT !.app.imagePreview =
                Some([newImage |-> ImageItem(GenId("gen", r.taskId), r.rect.x,
                                      r.rect.y, r.rect.width, r.rect.height, 0),
                      itemsToReplace |-> r.itemsForTask])]
      [] r.kind = "video" ->
            LET b == newVideoBox(r.rect, videoWidth, videoHeight)
            IN setItems(g,
                   Append(WithoutIds(Items(g), IdsOf(r.itemsForTask)),
                          [ImageItem(GenId("vid", r.taskId), b.x, b.y,
                                     b.width, b.height, 0)
                              EXCEPT !.type = "video"]),
                   TRUE)
      [] r.kind = "magic-fill" ->
            setItems(g,
                Replaced(Items(g), The(r.targetItem).id,
                         [The(r.targetItem) EXCEPT !.id = GenId("gen", r.taskId)]),
                TRUE)

handleAcceptPreview(g) ==
    IF g.app.imagePreview = Null THEN g
    ELSE LET p == The(g.app.imagePreview)
         IN [setItems(g, Append(WithoutIds(Items(g), IdsOf(p.itemsToReplace)),
                                p.newImage), TRUE)
                EXCEPT !.app.imagePreview = Null]

handleDiscardPreview(g) ==
    IF g.app.imagePreview = Null THEN g
    ELSE [g EXCEPT !.app.imagePreview = Null]

handleGenerateFromSelectionBar(g, t, generator, selectionPrompt) ==
    LET finalPrompt == IF trim(selectionPrompt) # "" THEN Some(selectionPrompt)
                       ELSE Null
        a == g.app
        Cleared(res) ==
            [res EXCEPT !.g.app.selectionRect = Null,
                        !.g.app.selectedItems = <<>>]
    IN IF a.expansionGenerationInfo # Null
       THEN LET res == IF generator = "image"
                       THEN startExpansionGeneration(g, t,
                                IF finalPrompt = Null THEN "" ELSE The(finalPrompt),
                                The(a.expansionGenerationInfo))
                       ELSE Returned(g)
            IN Cleared([res EXCEPT !.g.app.expansionGenerationInfo = Null])
       ELSE IF a.selectionRect # Null
       THEN Cleared(IF generator = "image"
                    THEN startImageGeneration(g, t, finalPrompt, a.selectedItems,
                                              The(a.selectionRect))
                    ELSE startVideoGeneration(g, t, finalPrompt, a.selectedItems,
                                              The(a.selectionRect)))
       ELSE Cleared(Returned(g))

handleShowContextMenu(g, data) == [g EXCEPT !.app.contextMenu = Some(data)]

handleGenerateFromContextMenu(g) ==
    LET a == g.app
    IN IF ~isApiKeyConfigured \/ a.contextMenu = Null THEN g
       ELSE IF The(a.contextMenu).item # Null THEN g
       ELSE [g EXCEPT !.app.generationPromptModal =
                          [isOpen |-> TRUE,
                           position |-> Some(The(a.contextMenu).canvasPoint)],
                      !.app.contextMenu = Null]

generationSize == 512

handleGenerateFromModal(g, t, prompt) ==
    LET position == g.app.generationPromptModal.position
    IN IF position = Null THEN Returned(g)
       ELSE LET rect == Box(The(position).x - Half(generationSize),
                            The(position).y - Half(generationSize),
                            generationSize, generationSize)
                res == startImageGeneration(g, t, Some(prompt), <<>>, rect)
            IN [res EXCEPT !.g.app.generationPromptModal =
                               [isOpen |-> FALSE, position |-> Null]]

handleStartExpansionMode(g) ==
    LET a == g.app
    IN IF a.contextMenu = Null THEN g
       ELSE IF The(a.contextMenu).item = Null THEN g
       ELSE IF The(The(a.contextMenu).item).type # "image" THEN g
       ELSE [g EXCEPT !.app.selectionRect = Null,
                      !.app.selectedItems = <<>>,
                      !.app.expansionState =
                          [isActive |-> TRUE,
                           targetItem |-> The(a.contextMenu).item],
                      !.app.contextMenu = Null]

----------------------------------------------------------------------------
(* Specification of the store alone: any sequence of at most MaxCalls      *)
(* calls, each value drawn from Values.                                    *)

Values == {<<>>} \cup {<<ImageItem(Id("img", 1), 20 * k, 0, 20, 20, 0)>> : k \in 1..NumValues}

initialState == <<>>

Call(op, commit, value, r) ==
    [op |-> op, commit |-> commit, value |-> value, before |-> store,
     notified |-> r.notified]

InitHistory ==
    /\ useHistory(initialState)
    /\ calls = <<>>
    /\ tasks = <<>>
    /\ running = <<>>
    /\ canvas = Null
    /\ app = Null
    /\ now = 0
    /\ watch = Null
    /\ nEvents = 0

SetState(newState, commit) ==
    LET r == setStateInternal(store, newState, commit) IN
    /\ Len(calls) < MaxCalls
    /\ history' = r.history
    /\ index' = r.index
    /\ calls' = Append(calls, Call("setState", commit, newState, r))
    /\ UNCHANGED uiVars

Undo ==
    LET r == undoInternal(store) IN
    /\ Len(calls) < MaxCalls
    /\ history' = r.history
    /\ index' = r.index
    /\ calls' = Append(calls, Call("undo", FALSE, <<>>, r))
    /\ UNCHANGED uiVars

Redo ==
    LET r == redoInternal(store) IN
    /\ Len(calls) < MaxCalls
    /\ history' = r.history
    /\ index' = r.index
    /\ calls' = Append(calls, Call("redo", FALSE, <<>>, r))
    /\ UNCHANGED uiVars

NextHistory ==
    \/ \E v \in Values, c \in BOOLEAN : SetState(v, c)
    \/ Undo
    \/ Redo

vars == <<history, index, calls, canvas, app, now, watch, nEvents, tasks, running>>

SpecHistory == InitHistory /\ [][NextHistory]_vars

----------------------------------------------------------------------------
(* Specification of the Canvas over the store: pointer gestures on the     *)
(* canvas and its control box, the toolbar's draw-mode and grid toggles,   *)
(* and undo/redo from the keyboard.                                        *)

InitialItems == <<ImageItem(Id("img", 1), 0, 0, 20, 20, 0)>>

PointerPoints == {Point(10, 10), Point(6, 10), Point(30, 10), Point(10, 30)}

PointerEvents ==
    {[clientX |-> p.x, clientY |-> p.y, button |-> 0, shiftKey |-> shift,
      now |-> now] : p \in PointerPoints, shift \in BOOLEAN}

\* the events of the handlers that do not read shiftKey
PlainEvents == {e \in PointerEvents : ~e.shiftKey}

Handles == {"se", "rotate"}

InitCanvas ==
    [interactionMode |-> "none", startPoint |-> Null, currentItem |-> Null,
     currentDrawing |-> Null, transientSelectionRect |-> Null,
     editingTextItem |-> Null, singlySelectedItemId |-> Null,
     isSpacePanning |-> FALSE, activeHandle |-> Null,
     originalItemState |-> Null, expansionGhostRect |-> Null,
     gestureDidCommit |-> FALSE]

InitApp ==
    [isDrawingMode |-> FALSE, isTextMode |-> FALSE, selectionRect |-> Null,
     selectedItems |-> <<>>, gridOptions |-> [isVisible |-> FALSE, spacing |-> 20],
     pan |-> Point(0, 0), imagePreview |-> Null, magicFillState |-> NoMagicFill,
     expansionState |-> [isActive |-> FALSE, targetItem |-> Null],
     expansionGenerationInfo |-> Null, isPanelOpen |-> FALSE,
     contextMenu |-> Null,
     generationPromptModal |-> [isOpen |-> FALSE, position |-> Null]]

\* the observer of gestures: the store at pointer-down, whether the item
\* collection has differed from the pointer-down one since, whether
\* anything but pointer-moves came between pointer-down and pointer-up,
\* the index of the entry the gesture itself committed, and whether the
\* size floor has turned down one of its pointer-moves
Idle == [phase |-> "idle", kind |-> "none", downStore |-> Null,
         changed |-> FALSE, clean |-> TRUE, owned |-> Null,
         rejected |-> FALSE]

InitGesture ==
    /\ useHistory(InitialItems)
    /\ calls = <<>>
    /\ tasks = <<>>
    /\ running = <<>>
    /\ canvas = InitCanvas
    /\ app = InitApp
    /\ now = 0
    /\ watch = Idle
    /\ nEvents = 0

Event ==
    /\ nEvents < MaxEvents
    /\ nEvents' = nEvents + 1

Apply(w) ==
    /\ Event
    /\ history' = w.history
    /\ index' = w.index
    /\ canvas' = w.canvas
    /\ app' = w.app

WatchDown(w) ==
    IF canvas.interactionMode # "none"
    THEN [watch EXCEPT !.clean = FALSE]
    ELSE IF w.canvas.interactionMode = "none" THEN Idle
    ELSE [phase |-> "active", kind |-> w.canvas.interactionMode,
          downStore |-> Some(store), changed |-> Items(w) # state,
          clean |-> TRUE,
          owned |-> IF w.index = index + 1 THEN Some(w.index) ELSE Null,
          rejected |-> FALSE]

WatchStep(w) ==
    IF watch.phase # "active" THEN watch
    ELSE [watch EXCEPT !.changed =
            @ \/ Items(w) # ValueInStore(The(watch.downStore)),
                       !.owned =
            IF w.index = index + 1 THEN Some(w.index) ELSE @]

WatchOther == IF watch.phase = "active" THEN [watch EXCEPT !.clean = FALSE]
              ELSE Idle

\* the control box of the singly selected item is on screen
selectedItemForBox ==
    LET ids == {i \in 1..Len(state) :
                   canvas.singlySelectedItemId = Some(state[i].id)}
    IN IF ids = {} THEN Null ELSE Some(state[SetMin(ids)])

ControlBoxShown ==
    /\ selectedItemForBox # Null
    /\ canvas.interactionMode # "selecting"
    /\ app.selectionRect = Null
    /\ ~app.magicFillState.isActive

\* the inputs for which the modelled arithmetic is exact
RotateExact(center, e) == OnAxis(e.clientY - center.y, e.clientX - center.x)

ScreenCenter(item) ==
    LET center == getCenter(getBoundingBox(item))
    IN Point(center.x * zoom + app.pan.x, center.y * zoom + app.pan.y)

ResizeExact(e) ==
    LET orig == The(canvas.originalItemState)
        point == getCanvasPoint(World, e)
        vec == rotatePoint(Point(point.x - orig.oppositeCorner.x,
                                 point.y - orig.oppositeCorner.y),
                           Point(0, 0), -orig.item.rotation)
        w0 == Abs(vec.x)
        h0 == Abs(vec.y)
        wider == IF h0 = 0 THEN w0 > 0
                 ELSE w0 * orig.box.height > orig.box.width * h0
    IN /\ IsEven(point.x - orig.oppositeCorner.x)
       /\ IsEven(point.y - orig.oppositeCorner.y)
       /\ (e.shiftKey /\ orig.item.type \in {"image", "video"}) =>
              IF wider
              THEN /\ Divides(orig.box.width, w0 * orig.box.height)
                   /\ IsEven((w0 * orig.box.height) \div orig.box.width)
              ELSE /\ Divides(orig.box.height, h0 * orig.box.width)
                   /\ IsEven((h0 * orig.box.width) \div orig.box.height)
       /\ \A k \in 1..Len(state) :
              (/\ canvas.currentItem # Null
               /\ state[k].id = The(canvas.currentItem).id
               /\ state[k].type = "drawing")
              => \A i \in 1..Len(state[k].points) :
                    /\ Divides(orig.box.width,
                               (state[k].points[i].x - orig.center.x) * w0)
                    /\ Divides(orig.box.height,
                               (state[k].points[i].y - orig.center.y) * h0)

MoveExact(e) ==
    CASE canvas.interactionMode = "rotating" ->
            RotateExact(The(canvas.originalItemState).center, e)
      [] canvas.interactionMode = "resizing" -> ResizeExact(e)
      [] OTHER -> TRUE

MouseDown(e) ==
    LET w == handleMouseDown(World, e) IN
    /\ Len(history) <= MaxHist
    /\ Apply(w)
    /\ watch' = WatchDown(w)
    /\ UNCHANGED <<now, calls, tasks, running>>

HandleMouseDown(e, handle) ==
    LET w == handleInteractionStart(World, e, handle, selectedItemForBox) IN
    /\ Len(history) <= MaxHist
    /\ ControlBoxShown
    /\ The(selectedItemForBox).type # "drawing"
    /\ handle = "rotate" => RotateExact(ScreenCenter(The(selectedItemForBox)), e)
    /\ Apply(w)
    /\ watch' = WatchDown(w)
    /\ UNCHANGED <<now, calls, tasks, running>>

\* the resize step for e is turned down by the size floor
BelowFloor(e) ==
    /\ canvas.interactionMode = "resizing"
    /\ canvas.currentItem # Null
    /\ canvas.startPoint # Null
    /\ canvas.activeHandle # Null
    /\ LET dims == ResizeDims(The(canvas.originalItemState),
                              getCanvasPoint(World, e), e.shiftKey)
       IN dims.width < MinResizeSize \/ dims.height < MinResizeSize

MouseMove(e) ==
    LET w == handleMouseMove(World, e) IN
    /\ MoveExact(e)
    /\ canvas.interactionMode = "drawing" /\ canvas.currentDrawing # Null
          => Len(The(canvas.currentDrawing).points) < MaxPoints
    /\ Apply(w)
    /\ watch' = IF watch.phase = "active" /\ BelowFloor(e)
                THEN [WatchStep(w) EXCEPT !.rejected = TRUE]
                ELSE WatchStep(w)
    /\ UNCHANGED <<now, calls, tasks, running>>

MouseUp(e) ==
    LET w == handleMouseUp(World, e) IN
    /\ Apply(w)
    /\ watch' = IF watch.phase = "active" THEN [watch EXCEPT !.phase = "ended"]
                ELSE Idle
    /\ UNCHANGED <<now, calls, tasks, running>>

\* a mutation of MouseLeave: the canvas has no onMouseLeave handler
MouseLeave_Unhandled(e) ==
    /\ Event
    /\ watch' = WatchOther
    /\ UNCHANGED <<history, index, canvas, app, now, calls, tasks, running>>

\* the pointer leaves the canvas element: onMouseLeave={handleMouseUp}
MouseLeave(e) ==
    LET w == handleMouseUp(World, e) IN
    /\ Apply(w)
    /\ watch' = IF watch.phase = "active" THEN [watch EXCEPT !.phase = "left"]
                ELSE Idle
    /\ UNCHANGED <<now, calls, tasks, running>>

\* the space bar goes down, comes up
KeySpaceDown ==
    LET w == handleKeyDown(World) IN
    /\ Apply(w)
    /\ watch' = WatchOther
    /\ UNCHANGED <<now, calls, tasks, running>>

KeySpaceUp ==
    LET w == handleKeyUp(World) IN
    /\ Apply(w)
    /\ watch' = WatchOther
    /\ UNCHANGED <<now, calls, tasks, running>>

\* Ctrl+Z, Ctrl+Y
KeyUndo ==
    LET r == undoInternal(store) IN
    /\ Event
    /\ history' = r.history
    /\ index' = r.index
    /\ watch' = IF watch.phase = "ended" THEN [watch EXCEPT !.phase = "undone"]
                ELSE WatchOther
    /\ UNCHANGED <<canvas, app, now, calls, tasks, running>>

KeyRedo ==
    LET r == redoInternal(store) IN
    /\ Event
    /\ history' = r.history
    /\ index' = r.index
    /\ watch' = WatchOther
    /\ UNCHANGED <<canvas, app, now, calls, tasks, running>>

\* the toolbar is outside the canvas element: the pointer has left it
handleSetDrawingMode ==
    /\ canvas.interactionMode = "none"
    /\ Event
    /\ app' = IF ~app.isDrawingMode
              THEN [app EXCEPT !.isDrawingMode = TRUE, !.isTextMode = FALSE,
                               !.magicFillState.isActive = FALSE]
              ELSE [app EXCEPT !.isDrawingMode = FALSE]
    /\ watch' = Idle
    /\ UNCHANGED <<history, index, canvas, now, calls, tasks, running>>

handleGridOptionsChange ==
    /\ canvas.interactionMode = "none"
    /\ Event
    /\ app' = [app EXCEPT !.gridOptions.isVisible = ~@]
    /\ watch' = Idle
    /\ UNCHANGED <<history, index, canvas, now, calls, tasks, running>>

\* the clock is read only by a pointer-down that creates an item: it is
\* let run between gestures, while a tool that creates items is chosen
Tick ==
    /\ canvas.interactionMode = "none"
    /\ app.isDrawingMode \/ app.isTextMode \/ app.magicFillState.isActive
    /\ now < MaxClock
    /\ now' = now + 1
    /\ UNCHANGED <<history, index, canvas, app, watch, calls, nEvents, tasks, running>>

NextGesture ==
    \/ \E e \in PlainEvents : MouseDown(e)
    \/ \E e \in PlainEvents, h \in Handles : HandleMouseDown(e, h)
    \/ \E e \in PointerEvents : MouseMove(e)
    \/ \E e \in PlainEvents : MouseUp(e)
    \/ \E e \in PlainEvents : MouseLeave(e)
    \/ KeySpaceDown
    \/ KeySpaceUp
    \/ KeyUndo
    \/ KeyRedo
    \/ handleSetDrawingMode
    \/ handleGridOptionsChange
    \/ Tick

SpecGesture == InitGesture /\ [][NextGesture]_vars

----------------------------------------------------------------------------
(* Specification of moving and resizing among two items: an image and a    *)
(* drawing, at a store a resize of the image has or has not committed to,  *)
(* the drawing's control box shown or not; pointer gestures on the canvas  *)
(* and on the se handle, undo and redo, the grid hidden.                   *)

TransformItems ==
    <<ImageItem(Id("img", 1), 0, 0, 20, 20, 0),
      DrawingItem(Id("draw", 2), <<Point(40, 40), Point(60, 60)>>, 4, 0)>>

\* the collection after the image has been resized by its se handle
ResizedItems ==
    <<ImageItem(Id("img", 1), 0, 0, 40, 40, 0), TransformItems[2]>>

TransformStores ==
    {[history |-> <<TransformItems>>, index |-> 0],
     [history |-> <<TransformItems, ResizedItems>>, index |-> 1]}

TransformPoints ==
    {Point(10, 10), Point(50, 50), Point(62, 62), Point(86, 86)}

TransformEvents ==
    {[clientX |-> p.x, clientY |-> p.y, button |-> 0, shiftKey |-> FALSE,
      now |-> now] : p \in TransformPoints}

InitTransform ==
    /\ \E st \in TransformStores : history = st.history /\ index = st.index
    /\ calls = <<>>
    /\ tasks = <<>>
    /\ running = <<>>
    /\ \E selected \in {Null, Some(TransformItems[2].id)} :
            canvas = [InitCanvas EXCEPT !.singlySelectedItemId = selected]
    /\ app = InitApp
    /\ now = 0
    /\ watch = Idle
    /\ nEvents = 0

\* pointer-down on a handle of the control box, whatever the item
ResizeHandleMouseDown(e, handle) ==
    LET w == handleInteractionStart(World, e, handle, selectedItemForBox) IN
    /\ Len(history) <= MaxHist
    /\ ControlBoxShown
    /\ Apply(w)
    /\ watch' = WatchDown(w)
    /\ UNCHANGED <<now, calls, tasks, running>>

NextTransform ==
    \/ \E e \in TransformEvents : MouseDown(e)
    \/ \E e \in TransformEvents : ResizeHandleMouseDown(e, "se")
    \/ \E e \in TransformEvents : MouseMove(e)
    \/ \E e \in TransformEvents : MouseUp(e)
    \/ KeyUndo
    \/ KeyRedo

SpecTransform == InitTransform /\ [][NextTransform]_vars

----------------------------------------------------------------------------
(* Specification of moving on the grid: the image and the drawing of the   *)
(* specification above with the grid visible; pointer gestures with and    *)
(* without the Shift key held, and undo.                                   *)

SnapEvents ==
    {[clientX |-> p.x, clientY |-> p.y, button |-> 0, shiftKey |-> shift,
      now |-> now] : p \in TransformPoints, shift \in BOOLEAN}

InitSnap ==
    /\ useHistory(TransformItems)
    /\ calls = <<>>
    /\ tasks = <<>>
    /\ running = <<>>
    /\ canvas = InitCanvas
    /\ app = [InitApp EXCEPT !.gridOptions.isVisible = TRUE]
    /\ now = 0
    /\ watch = Idle
    /\ nEvents = 0

NextSnap ==
    \/ \E e \in TransformEvents : MouseDown(e)
    \/ \E e \in SnapEvents : MouseMove(e)
    \/ \E e \in TransformEvents : MouseUp(e)
    \/ KeyUndo

SpecSnap == InitSnap /\ [][NextSnap]_vars

----------------------------------------------------------------------------
(* Specification of expanding: the canvas as a right-click on the image    *)
(* and the menu's Expand leave it, the image singly selected and the       *)
(* expansion active, so that the image's own control box and the expansion *)
(* box are both on screen; pointer gestures on the canvas and on every     *)
(* handle of the two boxes, and panning with the space bar.                *)

AllHandles == {"n", "s", "e", "w", "nw", "ne", "sw", "se", "rotate"}

ExpandPoints ==
    {Point(-10, -10), Point(10, 10), Point(30, 10), Point(10, 30), Point(30, 30)}

ExpandEvents ==
    {[clientX |-> p.x, clientY |-> p.y, button |-> 0, shiftKey |-> FALSE,
      now |-> now] : p \in ExpandPoints}

InitExpand ==
    /\ useHistory(InitialItems)
    /\ calls = <<>>
    /\ tasks = <<>>
    /\ running = <<>>
    /\ canvas = [InitCanvas EXCEPT
                    !.singlySelectedItemId = Some(InitialItems[1].id)]
    /\ app = [InitApp EXCEPT
                 !.expansionState =
                     [isActive |-> TRUE, targetItem |-> Some(InitialItems[1])]]
    /\ now = 0
    /\ watch = Idle
    /\ nEvents = 0

\* pointer-down on a handle of either box while the expansion is active
ExpansionHandleMouseDown(e, handle) ==
    /\ app.expansionState.isActive
    /\ ResizeHandleMouseDown(e, handle)

NextExpand ==
    \/ \E e \in ExpandEvents : MouseDown(e)
    \/ \E e \in ExpandEvents, h \in AllHandles : ExpansionHandleMouseDown(e, h)
    \/ \E e \in ExpandEvents : MouseMove(e)
    \/ \E e \in ExpandEvents : MouseUp(e)
    \/ KeySpaceDown
    \/ KeySpaceUp

SpecExpand == InitExpand /\ [][NextExpand]_vars

----------------------------------------------------------------------------
(* Specification of magic-fill mask painting: the canvas after a click has *)
(* selected the image, at one of the stores a move and an undo leave; the   *)
(* toolbar's magic-fill toggle, pointer gestures, undo and redo.            *)

MovedItems == <<ImageItem(Id("img", 1), 20, 0, 20, 20, 0)>>

\* stores that hold the image: fresh, after a move, after a move and an undo
MagicFillStores ==
    {[history |-> <<InitialItems>>, index |-> 0],
     [history |-> <<InitialItems, MovedItems>>, index |-> 1],
     [history |-> <<InitialItems, MovedItems>>, index |-> 0]}

InitMagicFill ==
    /\ \E st \in MagicFillStores :
          /\ history = st.history
          /\ index = st.index
          /\ app = [InitApp EXCEPT !.selectedItems = ValueInStore(st)]
    /\ calls = <<>>
    /\ tasks = <<>>
    /\ running = <<>>
    /\ canvas = [InitCanvas EXCEPT
                    !.singlySelectedItemId = Some(InitialItems[1].id)]
    /\ now = 0
    /\ watch = Idle
    /\ nEvents = 0

handleSetMagicFillMode ==
    /\ canvas.interactionMode = "none"
    /\ Event
    /\ app' = SetMagicFillMode(app)
    /\ watch' = Idle
    /\ UNCHANGED <<history, index, canvas, now, calls, tasks, running>>

NextMagicFill ==
    \/ handleSetMagicFillMode
    \/ \E e \in PointerEvents : MouseDown(e)
    \/ \E e \in PointerEvents : MouseMove(e)
    \/ \E e \in PointerEvents : MouseUp(e)
    \/ \E e \in PointerEvents : MouseLeave(e)
    \/ KeyUndo
    \/ KeyRedo

SpecMagicFill == InitMagicFill /\ [][NextMagicFill]_vars

----------------------------------------------------------------------------
(* Specification of the hit test alone: a collection of at most MaxItems   *)
(* items, some of them ghosted by a pending preview, queried at a point.   *)

ItemPool ==
    {ImageItem(Id("img", 1), 0, 0, 20, 20, 0),
     ImageItem(Id("img", 2), 10, 0, 20, 40, 90),
     DrawingItem(Id("draw", 3), <<Point(10, 10), Point(30, 10)>>, 4, 0)}

\* the collections of at most n distinct items of the pool
RECURSIVE Collections(_)
Collections(n) ==
    IF n = 0 THEN {<<>>}
    ELSE LET shorter == Collections(n - 1)
         IN shorter \cup
            {Append(c, x) : c \in {d \in shorter : Len(d) = n - 1},
                            x \in ItemPool}

DistinctIds(items) ==
    \A i, j \in 1..Len(items) : items[i].id = items[j].id => i = j

HitPoints ==
    {Point(10, 10), Point(5, 25), Point(20, 5), Point(30, 10), Point(50, 50)}

\* no preview, or a preview that is to replace one or two items
Previews ==
    {Null} \cup
    {Some([newImage |-> ImageItem(Id("img", 9), 0, 0, 20, 20, 0),
           itemsToReplace |-> r]) :
        r \in {c \in Collections(2) : Len(c) > 0 /\ DistinctIds(c)}}

InitHitTest ==
    /\ \E items \in {c \in Collections(MaxItems) : DistinctIds(c)} :
            useHistory(items)
    /\ calls = <<>>
    /\ tasks = <<>>
    /\ running = <<>>
    /\ canvas = InitCanvas
    /\ \E p \in Previews : app = [InitApp EXCEPT !.imagePreview = p]
    /\ now = 0
    /\ watch = [point |-> Null, result |-> Null]
    /\ nEvents = 0

\* one query of the hit test, its answer kept
FindItem(point) ==
    /\ watch' = [point |-> Some(point), result |-> findItemAtPoint(World, point)]
    /\ UNCHANGED <<history, index, canvas, app, now, nEvents, calls, tasks, running>>

NextHitTest == \E point \in HitPoints : FindItem(point)

SpecHitTest == InitHitTest /\ [][NextHitTest]_vars

----------------------------------------------------------------------------
(* Specification of the geometry functions alone: one item, drawn from     *)
(* drawings of at most MaxPoints points and from boxes some of which have  *)
(* no width or no height; the functions are applied to it and the answer   *)
(* kept.                                                                   *)

\* the even ones of STROKE_WIDTHS
StrokeWidths == {2, 10}

GridPoints == {Point(0, 0), Point(10, 0), Point(0, 10), Point(10, 10)}

\* the point lists of 1..n grid points
RECURSIVE Strokes(_)
Strokes(n) ==
    IF n = 0 THEN {}
    ELSE {<<p>> : p \in GridPoints} \cup
         {Append(s, p) : s \in Strokes(n - 1), p \in GridPoints}

GeometryItems ==
    {DrawingItem(Id("draw", 1), pts, sw, rot) :
        pts \in Strokes(MaxPoints), sw \in StrokeWidths, rot \in {0, 90}}
    \cup
    {DrawingItem(Id("draw", 1), <<>>, 2, 0),
     ImageItem(Id("img", 1), 0, 0, 20, 20, 0),
     ImageItem(Id("img", 1), 0, 0, 20, 40, 90),
     ImageItem(Id("img", 1), 0, 0, 0, 20, 0),
     ImageItem(Id("img", 1), 0, 0, 20, 0, 90),
     ImageItem(Id("img", 1), 10, 10, 0, 0, 0)}

SelectionRects ==
    {Box(0, 0, 20, 20), Box(-5, -5, 30, 30), Box(5, 5, 10, 10),
     Box(50, 50, 10, 10), Box(11, -5, 10, 30), Box(10, 10, 0, 0)}

Asked(op, item, rect, result) ==
    [op |-> op, item |-> item, rect |-> rect, result |-> result]

InitGeometry ==
    /\ useHistory(<<>>)
    /\ calls = <<>>
    /\ tasks = <<>>
    /\ running = <<>>
    /\ canvas = InitCanvas
    /\ app = InitApp
    /\ now = 0
    /\ \E item \in GeometryItems : watch = Asked("none", item, Null, Null)
    /\ nEvents = 0

Ask(op, rect, result) ==
    /\ watch' = Asked(op, watch.item, rect, result)
    /\ UNCHANGED <<history, index, canvas, app, now, nEvents, calls, tasks, running>>

GetBoundingBox == Ask("getBoundingBox", Null, getBoundingBox(watch.item))

ConvertDrawingToImageItem(ctx) ==
    /\ watch.item.type = "drawing"
    /\ Ask("convertDrawingToImageItem", Null,
           convertDrawingToImageItem(watch.item, ctx))

IsItemInSelection(rect) ==
    Ask("isItemInSelection", Some(rect), isItemInSelection(watch.item, rect))

NextGeometry ==
    \/ GetBoundingBox
    \/ \E ctx \in BOOLEAN : ConvertDrawingToImageItem(ctx)
    \/ \E rect \in SelectionRects : IsItemInSelection(rect)

SpecGeometry == InitGeometry /\ [][NextGeometry]_vars

----------------------------------------------------------------------------
(* Specification of persistence: the App is constructed over what          *)
(* localStorage holds, the collection is replaced by commits of at most    *)
(* MaxItems items, saved, and the page reloaded.                           *)

VideoItem(id, px, py, w, h, rot) ==
    [ImageItem(id, px, py, w, h, rot) EXCEPT !.type = "video"]

StoragePool ==
    {ImageItem(Id("img", 1), 0, 0, 20, 20, 0),
     VideoItem(Id("vid", 2), 10, 0, 40, 20, 0),
     DrawingItem(Id("draw", 3), <<Point(10, 10), Point(30, 10)>>, 4, 90)}

\* the collections of at most n distinct items of the pool
RECURSIVE Shelves(_)
Shelves(n) ==
    IF n = 0 THEN {<<>>}
    ELSE LET shorter == Shelves(n - 1)
         IN shorter \cup
            {Append(c, x) : c \in {d \in shorter : Len(d) = n - 1},
                            x \in StoragePool}

StorageCollections == {c \in Shelves(MaxItems) : DistinctIds(c)}

\* nothing stored, or what an earlier session stored, a video included
InitialStorages ==
    {Null, Some(JsonStringify(<<VideoItem(Id("vid", 2), 10, 0, 40, 20, 0),
                                ImageItem(Id("img", 1), 0, 0, 20, 20, 0)>>))}

InitStorage ==
    /\ \E ls \in InitialStorages :
            /\ useHistory(loadInitialItems(ls))
            /\ watch = [localStorage |-> ls, hasUnsavedChanges |-> FALSE,
                        saved |-> Null]
    /\ calls = <<>>
    /\ tasks = <<>>
    /\ running = <<>>
    /\ canvas = InitCanvas
    /\ app = InitApp
    /\ now = 0
    /\ nEvents = 0

storageFrame == <<canvas, app, now, nEvents, calls, tasks, running>>

\* setItems(c) from any producer of items
Commit(c) ==
    /\ Len(history) < MaxHist
    /\ LET r == setStateInternal([history |-> history, index |-> index], c, TRUE)
       IN /\ history' = r.history
          /\ index' = r.index
          /\ watch' = [watch EXCEPT !.hasUnsavedChanges = @ \/ r.notified]
    /\ UNCHANGED storageFrame

\* the Save button; saved is the observer's copy of the collection saved
HandleSave ==
    /\ watch' = [localStorage |-> handleSave(state),
                 hasUnsavedChanges |-> FALSE,
                 saved |-> Some(state)]
    /\ UNCHANGED <<history, index>>
    /\ UNCHANGED storageFrame

\* the page is loaded again: App is constructed over localStorage
Reload ==
    /\ history' = <<loadInitialItems(watch.localStorage)>>
    /\ index' = 0
    /\ watch' = [watch EXCEPT !.hasUnsavedChanges = FALSE]
    /\ UNCHANGED storageFrame

NextStorage ==
    \/ \E c \in StorageCollections : Commit(c)
    \/ HandleSave
    \/ Reload

SpecStorage == InitStorage /\ [][NextStorage]_vars

----------------------------------------------------------------------------
(* Specification of the snapshot alone: a collection of at most MaxItems   *)
(* items, of which some media load and some do not, rendered over one rect.*)

SnapshotPool ==
    {ImageItem(Id("img", 1), 0, 0, 20, 20, 0),
     ImageItem(Id("img", 2), 10, 10, 20, 20, 90),
     ImageItem(Id("img", 3), 100, 100, 20, 20, 0),
     TextItem(Id("text", 4), 0, 0, 20, 10, 0, "t"),
     DrawingItem(Id("draw", 5), <<Point(10, 10), Point(30, 10)>>, 4, 0),
     DrawingItem(Id("draw", 6), <<Point(10, 10)>>, 4, 90)}

RECURSIVE SnapshotShelves(_)
SnapshotShelves(n) ==
    IF n = 0 THEN {<<>>}
    ELSE LET shorter == SnapshotShelves(n - 1)
         IN shorter \cup
            {Append(c, x) : c \in {d \in shorter : Len(d) = n - 1},
                            x \in SnapshotPool}

SnapshotRect == Box(0, 0, 50, 50)

MediaIds(items) ==
    {items[i].id : i \in {j \in 1..Len(items) :
                              items[j].type \in {"image", "video"}}}

InitSnapshot ==
    /\ \E c \in {d \in SnapshotShelves(MaxItems) : DistinctIds(d)} :
            useHistory(c)
    /\ calls = <<>>
    /\ tasks = <<>>
    /\ running = <<>>
    /\ canvas = InitCanvas
    /\ app = InitApp
    /\ now = 0
    /\ watch = [ctx |-> FALSE, loaded |-> {}, result |-> Null]
    /\ nEvents = 0

CreateCanvasSnapshot(ctx, loaded) ==
    /\ watch' = [ctx |-> ctx, loaded |-> loaded,
                 result |-> Some(createCanvasSnapshot(state, SnapshotRect,
                                                      ctx, loaded))]
    /\ UNCHANGED <<history, index, canvas, app, now, nEvents, calls, tasks, running>>

NextSnapshot ==
    \E ctx \in BOOLEAN, loaded \in SUBSET MediaIds(state) :
        CreateCanvasSnapshot(ctx, loaded)

SpecSnapshot == InitSnapshot /\ [][NextSnapshot]_vars

----------------------------------------------------------------------------
(* Specification of generation: the selection bar, the context menu and    *)
(* its prompt modal, expansion, magic fill and the preview bar start and   *)
(* settle tasks in at most MaxEvents user events; each await of a started  *)
(* function is resolved or rejected by its environment, and Date.now() is  *)
(* the clock.                                                              *)

\* the areas the Canvas reports as marquee selections
Areas == {Box(0, 0, 20, 20)}

\* where a context menu is opened off every item
MenuPoint == Point(256, 256)

\* the area an expansion is dragged out to
ExpansionRect == Box(0, 0, 40, 20)

\* the mask a magic-fill stroke leaves
MaskDrawing == DrawingItem(Id("mask", 0), <<Point(5, 5)>>, 30, 0)

\* the sizes of the videos the collaborator returns
VideoSizes == {<<40, 20>>}

\* the prompts the collaborator returns
Answers == {" ", "a prompt"}

\* what is typed into the selection bar, and into the magic-fill bar
BarPrompts == {"", "a prompt"}
FillPrompts == {"a prompt"}

\* no dialogue, mode or selection is open
UiIdle ==
    /\ app.selectionRect = Null
    /\ app.contextMenu = Null
    /\ ~app.generationPromptModal.isOpen
    /\ ~app.expansionState.isActive
    /\ app.expansionGenerationInfo = Null
    /\ ~app.magicFillState.isActive
    /\ app.imagePreview = Null

InitTasks ==
    /\ useHistory(InitialItems)
    /\ calls = <<>>
    /\ tasks = <<>>
    /\ running = <<>>
    /\ canvas = InitCanvas
    /\ app = InitApp
    /\ now = 0
    /\ watch = Idle
    /\ nEvents = 0

taskVars == <<canvas, watch, calls>>

\* one more of the user's events; the budget is one short of the pointer
\* events' budget
UserEvent ==
    /\ nEvents < MaxEvents - 1
    /\ nEvents' = nEvents + 1

\* the values Date.now() may return: the clock does not run backwards
Clock == now..MaxClock

Put(g) ==
    /\ app' = g.app
    /\ history' = g.history
    /\ index' = g.index
    /\ tasks' = g.tasks
    /\ UNCHANGED taskVars

ApplyGen(g) ==
    /\ Put(g)
    /\ UNCHANGED now

\* a handler has run at clock value t that may have started a function
Started(res, t) ==
    /\ Put(res.g)
    /\ now' = t
    /\ running' = IF res.run = Null THEN running
                  ELSE Append(running, The(res.run))

\* the i-th function has run up to its next await or to its end
Continued(i, res) ==
    /\ ApplyGen(res.g)
    /\ running' = IF res.run = Null
                  THEN SubSeq(running, 1, i - 1)
                       \o SubSeq(running, i + 1, Len(running))
                  ELSE [running EXCEPT ![i] = The(res.run)]

SelectionChange(rect) ==
    /\ UserEvent
    /\ UiIdle
    /\ ItemsInSelection(Items(Gen), rect) # <<>>
    /\ ApplyGen([Gen EXCEPT !.app =
           handleSelectionChange(app, app, Some(rect),
                                 ItemsInSelection(Items(Gen), rect))])
    /\ UNCHANGED running

GenerateFromSelectionBar(generator, selectionPrompt) ==
    /\ UserEvent
    /\ app.selectionRect # Null \/ app.expansionGenerationInfo # Null
    /\ \E t \in Clock :
          Started(handleGenerateFromSelectionBar(Gen, t, generator, selectionPrompt), t)

ShowContextMenu(data) ==
    /\ UserEvent
    /\ UiIdle
    /\ ApplyGen(handleShowContextMenu(Gen, data))
    /\ UNCHANGED running

GenerateFromContextMenu ==
    /\ UserEvent
    /\ app.contextMenu # Null
    /\ ApplyGen(handleGenerateFromContextMenu(Gen))
    /\ UNCHANGED running

GenerateFromModal(prompt) ==
    /\ UserEvent
    /\ app.generationPromptModal.isOpen
    /\ \E t \in Clock : Started(handleGenerateFromModal(Gen, t, prompt), t)

StartExpansionMode ==
    /\ UserEvent
    /\ app.contextMenu # Null
    /\ ApplyGen(handleStartExpansionMode(Gen))
    /\ UNCHANGED running

ExpansionAreaDefined ==
    /\ UserEvent
    /\ app.expansionState.isActive
    /\ ApplyGen([Gen EXCEPT !.app =
           handleExpansionAreaDefined(app, app, ExpansionRect, "e")])
    /\ UNCHANGED running

SetMagicFillModeFromToolbar ==
    /\ UserEvent
    /\ app.selectionRect # Null
    /\ ApplyGen([Gen EXCEPT !.app = SetMagicFillMode(app)])
    /\ UNCHANGED running

MaskUpdate ==
    /\ UserEvent
    /\ app.magicFillState.isActive
    /\ ApplyGen([Gen EXCEPT !.app = onMaskUpdate(app, Some(MaskDrawing))])
    /\ UNCHANGED running

StartMagicFillGeneration(prompt) ==
    /\ UserEvent
    /\ app.magicFillState.maskDrawing # Null
    /\ \E t \in Clock : Started(startMagicFillGeneration(Gen, t, prompt), t)

Resolve(i, value) ==
    /\ running[i].pc \notin Decoding
    /\ Continued(i, resume(Gen, running[i], value))
    /\ UNCHANGED nEvents

Reject(i) ==
    /\ running[i].pc \notin Decoding
    /\ Continued(i, reject(Gen, running[i]))
    /\ UNCHANGED nEvents

Load(i, size) ==
    /\ running[i].pc \in Decoding
    /\ Continued(i, Returned(onload(Gen, running[i], size[1], size[2])))
    /\ UNCHANGED nEvents

AcceptPreview ==
    /\ UserEvent
    /\ app.imagePreview # Null
    /\ ApplyGen(handleAcceptPreview(Gen))
    /\ UNCHANGED running

DiscardPreview ==
    /\ UserEvent
    /\ app.imagePreview # Null
    /\ ApplyGen(handleDiscardPreview(Gen))
    /\ UNCHANGED running

NextTasks ==
    \/ \E rect \in Areas : SelectionChange(rect)
    \/ \E generator \in {"image", "video"}, p \in BarPrompts :
          GenerateFromSelectionBar(generator, p)
    \/ \E it \in {Null} \cup {Some(Items(Gen)[i]) : i \in 1..Len(Items(Gen))} :
          ShowContextMenu([item |-> it, canvasPoint |-> MenuPoint])
    \/ GenerateFromContextMenu
    \/ \E p \in Prompts : GenerateFromModal(p)
    \/ StartExpansionMode
    \/ ExpansionAreaDefined
    \/ SetMagicFillModeFromToolbar
    \/ MaskUpdate
    \/ \E p \in FillPrompts : StartMagicFillGeneration(p)
    \/ \E i \in 1..Len(running), value \in Answers : Resolve(i, value)
    \/ \E i \in 1..Len(running) : Reject(i)
    \/ \E i \in 1..Len(running), size \in VideoSizes : Load(i, size)
    \/ AcceptPreview
    \/ DiscardPreview

SpecTasks == InitTasks /\ [][NextTasks]_vars

----------------------------------------------------------------------------
(* Properties of the store, stated over SpecHistory *)

NCalls == Len(calls)
LastCall == calls[NCalls]
\* the value that was current before a call
ValueBefore(c) == c.before.history[c.before.index + 1]

IsSetState(c) == c.op = "setState"
IsCommit(c) == c.op = "setState" /\ c.commit
IsTransient(c) == c.op = "setState" /\ ~c.commit
\* the call asked for a value structurally different from the current one
Changes(c) == c.op = "setState" /\ c.value # ValueBefore(c)

NoAdjacentEqual(h) == \A k \in 1..(Len(h) - 1) : h[k] # h[k + 1]

\* C1: after any sequence of setState (commit or transient), undo and redo
\* the history is non-empty and 0 <= index <= length-1.
C1_IndexInBounds ==
    /\ Len(history) >= 1
    /\ index >= 0
    /\ index <= Len(history) - 1

C1_Witness ==
    /\ NCalls >= 4
    /\ \E i, j, k \in 1..NCalls :
          /\ IsCommit(calls[i]) /\ calls[j].op = "undo" /\ calls[k].op = "redo"
          /\ calls[j].before.index = 0
          /\ calls[k].before.index = Len(calls[k].before.history) - 1
    /\ canUndo

\* C2: a commit whose value differs from the current one discards every
\* entry after the current index, appends the value as the last entry and
\* sets index to length-1; the entries up to the old index are unchanged and
\* canRedo is false afterwards.
C2_CommitTruncatesAndAppends ==
    (NCalls > 0 /\ IsCommit(LastCall) /\ Changes(LastCall)) =>
        LET b == LastCall.before IN
        /\ Len(history) = b.index + 2
        /\ \A k \in 1..(b.index + 1) : history[k] = b.history[k]
        /\ history[Len(history)] = LastCall.value
        /\ index = Len(history) - 1
        /\ ~canRedo
        /\ LastCall.notified

C2_Witness ==
    /\ NCalls > 0 /\ IsCommit(LastCall) /\ Changes(LastCall)
    /\ LastCall.before.index < Len(LastCall.before.history) - 1
    /\ LastCall.before.index > 0

\* C3 (as stated): in every state reachable by commits, transient updates,
\* undo and redo no two adjacent history entries are structurally equal.
C3_NoAdjacentEqualEver == NoAdjacentEqual(history)

\* C3 (amended): as long as no transient update has been made - commits,
\* undo and redo only - no two adjacent history entries are structurally
\* equal.
C3_NoAdjacentEqualWithoutTransient ==
    (\A k \in 1..NCalls : ~IsTransient(calls[k])) => NoAdjacentEqual(history)

C3_Witness ==
    /\ \A k \in 1..NCalls : ~IsTransient(calls[k])
    /\ Len(history) >= 3
    /\ \E k \in 1..NCalls : IsCommit(calls[k]) /\ ~Changes(calls[k])
    /\ \E k \in 1..NCalls : calls[k].op = "undo" /\ calls[k].notified

\* C4: a setState, commit or transient, whose value is structurally equal
\* to the current one changes nothing: entries, index, canUndo and canRedo
\* stay and onStateChange is not invoked.
C4_EqualValueIsNoOp ==
    (NCalls > 0 /\ IsSetState(LastCall) /\ ~Changes(LastCall)) =>
        LET b == LastCall.before IN
        /\ history = b.history
        /\ index = b.index
        /\ canUndo = (b.index > 0)
        /\ canRedo = (b.index < Len(b.history) - 1)
        /\ ~LastCall.notified

C4_Witness ==
    /\ NCalls >= 2
    /\ IsTransient(LastCall) /\ ~Changes(LastCall)
    /\ IsCommit(calls[NCalls - 1]) /\ ~Changes(calls[NCalls - 1])
    /\ canUndo /\ canRedo

\* C5: a transient setState that changes the value replaces only the entry
\* at the current index: length, index and every other entry, the redo tail
\* included, are unchanged (so transient updates never lengthen the history).
C5_TransientOverwritesInPlace ==
    (NCalls > 0 /\ IsTransient(LastCall) /\ Changes(LastCall)) =>
        LET b == LastCall.before IN
        /\ Len(history) = Len(b.history)
        /\ index = b.index
        /\ history[index + 1] = LastCall.value
        /\ \A k \in 1..Len(b.history) :
              k # b.index + 1 => history[k] = b.history[k]

C5_Witness ==
    /\ NCalls >= 2
    /\ IsTransient(LastCall) /\ Changes(LastCall)
    /\ IsTransient(calls[NCalls - 1]) /\ Changes(calls[NCalls - 1])
    /\ canRedo

\* C6: undo moves the index down by exactly 1 when index > 0, redo up by
\* exactly 1 when index < length-1, neither touching an entry; at the
\* boundary each leaves the store unchanged and invokes no notification;
\* canUndo is (index > 0) and canRedo is (index < length-1).
C6_UndoRedoStep ==
    /\ canUndo = (index > 0)
    /\ canRedo = (index < Len(history) - 1)
    /\ (NCalls > 0 /\ LastCall.op = "undo") =>
          LET b == LastCall.before IN
          /\ history = b.history
          /\ index = IF b.index > 0 THEN b.index - 1 ELSE b.index
          /\ LastCall.notified = (b.index > 0)
    /\ (NCalls > 0 /\ LastCall.op = "redo") =>
          LET b == LastCall.before IN
          /\ history = b.history
          /\ index = IF b.index < Len(b.history) - 1 THEN b.index + 1
                                                    ELSE b.index
          /\ LastCall.notified = (b.index < Len(b.history) - 1)

C6_Witness ==
    /\ NCalls = 5
    /\ calls[1].op = "redo" /\ ~calls[1].notified
    /\ IsCommit(calls[2]) /\ Changes(calls[2])
    /\ calls[3].op = "undo" /\ calls[3].notified
    /\ calls[4].op = "undo" /\ ~calls[4].notified
    /\ calls[5].op = "redo" /\ calls[5].notified

\* the whole log is n commits followed by k undo calls
CommitsThenUndos(n, k) ==
    /\ NCalls = n + k
    /\ \A i \in 1..n : IsCommit(calls[i])
    /\ \A i \in (n + 1)..(n + k) : calls[i].op = "undo"

\* C7 (as stated): after N >= 1 sequential commits on a new store canUndo
\* is true, and after N undo calls the current value is the initial state.
C7_CommitsThenUndosReturn ==
    \A n \in 1..NCalls : \A k \in 0..n :
        CommitsThenUndos(n, k) =>
            /\ (k = 0 => canUndo)
            /\ (k = n => state = initialState)

\* C7 (amended): after N >= 1 sequential commits on a new store, each of
\* a value different from the then-current one, canUndo is true and the
\* index is N; each undo lowers it by one, so that only after exactly N
\* undo calls the store is back at its first entry, the initial state.
C7_ChangingCommitsThenUndosReturn ==
    \A n \in 1..NCalls : \A k \in 0..n :
        (CommitsThenUndos(n, k) /\ \A i \in 1..n : Changes(calls[i])) =>
            /\ index = n - k
            /\ (k < n => canUndo)
            /\ (k = n => state = initialState /\ ~canUndo)

C7_Witness ==
    /\ CommitsThenUndos(2, 2)
    /\ \A i \in 1..2 : Changes(calls[i])
    /\ state = initialState

\* the last three calls are setState(x, commit:true), undo, redo
RoundTrip ==
    /\ NCalls >= 3
    /\ IsCommit(calls[NCalls - 2])
    /\ calls[NCalls - 1].op = "undo"
    /\ calls[NCalls].op = "redo"

\* C8 (as stated): from every reachable store state and for every value x,
\* setState(x, commit:true); undo(); redo() leaves x as the current value.
C8_RoundTripYieldsX ==
    RoundTrip => state = calls[NCalls - 2].value

\* x is already the current value of a store at index 0 that has a redo tail
RoundTripSkipsAhead(c) ==
    /\ ~Changes(c)
    /\ c.before.index = 0
    /\ c.before.index < Len(c.before.history) - 1

\* C8 (amended): setState(x, commit:true); undo(); redo() leaves x as the
\* current value, except when x equals the current value of a store that
\* is at index 0 with a redo tail: then setState and undo do nothing and
\* redo moves on to the next entry.
C8_RoundTripYieldsXUnlessSkipped ==
    (RoundTrip /\ ~RoundTripSkipsAhead(calls[NCalls - 2])) =>
        state = calls[NCalls - 2].value

C8_Witness ==
    /\ RoundTrip
    /\ Changes(calls[NCalls - 2])
    /\ calls[NCalls - 2].before.index > 0
    /\ calls[NCalls - 1].notified /\ calls[NCalls].notified

----------------------------------------------------------------------------
(* Properties of gestures, stated over SpecGesture *)

\* a gesture of one of kinds that ran from pointer-down to pointer-up with
\* nothing but pointer-moves in between
CompletedGesture(kinds) ==
    /\ watch.phase = "ended"
    /\ watch.clean
    /\ watch.kind \in kinds

\* st is d with one entry committed on top of d's current one
OneEntryAdded(d, st) ==
    /\ st.index = d.index + 1
    /\ Len(st.history) = d.index + 2
    /\ \A k \in 1..(d.index + 1) : st.history[k] = d.history[k]

\* C9: every move, resize, rotate or draw gesture (pointer-down, any
\* number of pointer-moves, pointer-up) adds exactly one history entry if
\* it changes the item collection and none if it does not, however many
\* pointer-move events it contains.
C9_GestureAddsOneEntryIffChanged ==
    CompletedGesture({"moving", "resizing", "rotating", "drawing"}) =>
        LET d == The(watch.downStore)
        IN IF watch.changed THEN OneEntryAdded(d, store) ELSE store = d

\* C10: with no other history operation interleaved, a single undo after a
\* completed move, resize or rotate gesture that changed an item restores
\* the item collection exactly as it was at the pointer-down of that
\* gesture.
C10_UndoRestoresPointerDown ==
    (/\ watch.phase = "undone"
     /\ watch.clean
     /\ watch.kind \in {"moving", "resizing", "rotating"}
     /\ watch.changed)
        => state = ValueInStore(The(watch.downStore))

\* a step that overwrites the current entry in place
TransientOverwrite ==
    /\ history' # history
    /\ index' = index

\* C11: transient updates of an in-progress gesture, interleaved in any
\* order with undo/redo, only ever overwrite the entry that the same gesture
\* committed on its first move, never an entry holding the pre-gesture
\* state or another operation's committed result.
C11_TransientOverwritesOwnEntryOnly ==
    [][(/\ TransientOverwrite
        /\ watch.phase = "active"
        /\ watch.owned # Null)
            => watch.owned = Some(index)]_vars

\* all per-gesture state of the canvas c is cleared
GestureStateCleared(c) ==
    /\ c.interactionMode = "none"
    /\ c.startPoint = Null
    /\ c.currentItem = Null
    /\ c.currentDrawing = Null
    /\ c.transientSelectionRect = Null
    /\ c.activeHandle = Null
    /\ c.originalItemState = Null

\* a left-button pointer-up while the space bar holds the canvas in panning
SpacePanningUp(e) ==
    /\ canvas.interactionMode = "panning"
    /\ e.button = 0
    /\ canvas.isSpacePanning

\* C12 (as stated): after every pointer-up event, whatever the active mode,
\* the interaction mode is none and all per-gesture state is cleared.
C12_PointerUpClearsGesture ==
    [][\A e \in PointerEvents : MouseUp(e) => GestureStateCleared(canvas')]_vars

\* C12 (amended): after every pointer-up event, except a left-button
\* pointer-up while space-bar panning (which leaves the pan going), the
\* interaction mode is none and all per-gesture state is cleared.
C12_PointerUpClearsGestureUnlessSpacePanning ==
    [][\A e \in PointerEvents :
          (~SpacePanningUp(e) /\ watch'.phase \in {"ended", "idle"} /\ MouseUp(e))
              => GestureStateCleared(canvas')]_vars

C12_Witness ==
    /\ watch.phase = "ended"
    /\ watch.kind \in {"moving", "resizing", "panning"}
    /\ GestureStateCleared(canvas)

ModifyingKinds == {"moving", "resizing", "rotating", "drawing"}

\* C13: when the pointer leaves the canvas during an active move, resize,
\* rotate or draw gesture, the gesture is finalized as on pointer-up: the
\* item collection and the history stay as the gesture's last transient
\* update left them (nothing is reverted) and the mode returns to none with
\* the per-gesture state cleared.
C13_PointerLeaveFinalizes ==
    [][\A e \in PointerEvents :
          (/\ canvas.interactionMode \in ModifyingKinds
           /\ MouseLeave(e))
              => /\ history' = history
                 /\ index' = index
                 /\ GestureStateCleared(canvas')]_vars

C13_Witness ==
    /\ watch.phase = "left"
    /\ watch.kind \in ModifyingKinds
    /\ watch.clean
    /\ watch.changed
    /\ state # ValueInStore(The(watch.downStore))
    /\ canvas.interactionMode = "none"

\* the positions in items of those whose rotated bounding box and the
\* marquee share area
OverlappingAt(items, rect) ==
    {i \in 1..Len(items) :
        LET b == getRotatedBoundingBox(items[i])
        IN /\ Max2(b.x, rect.x) < Min2(b.x + b.width, rect.x + rect.width)
           /\ Max2(b.y, rect.y) < Min2(b.y + b.height, rect.y + rect.height)}

\* the items of a collection at the positions in at, in collection order
RECURSIVE ItemsAt(_, _, _)
ItemsAt(items, at, i) ==
    IF i > Len(items) THEN <<>>
    ELSE (IF i \in at THEN <<items[i]>> ELSE <<>>) \o ItemsAt(items, at, i + 1)

\* the smallest box holding every box of a non-empty set
UnionBox(boxes) ==
    LET left == SetMin({b.x : b \in boxes})
        top == SetMin({b.y : b \in boxes})
        right == SetMax({b.x + b.width : b \in boxes})
        bottom == SetMax({b.y + b.height : b \in boxes})
    IN Box(left, top, right - left, bottom - top)

\* the App takes a reported selection
SelectionTaken ==
    /\ app.imagePreview = Null
    /\ ~app.magicFillState.isActive
    /\ ~app.expansionState.isActive

----------------------------------------------------------------------------
(* Properties of the hit test, stated over SpecHitTest *)

\* item is not ghosted and its box holds the point once the point is
\* turned back about the item's centre by the item's rotation
Eligible(item, point) ==
    LET box == getBoundingBox(item)
        center == getCenter(box)
        p == rotatePoint(point, center, -item.rotation)
    IN /\ item.id \notin ghostedItemIds(app)
       /\ box.x <= p.x /\ p.x <= box.x + box.width
       /\ box.y <= p.y /\ p.y <= box.y + box.height

\* C15: findItemAtPoint returns the item latest in the collection among
\* the non-ghosted items whose box contains the query point after
\* un-rotating the point about the item's centre, and null when there is
\* none; a ghosted item is never returned.
C15_FindItemReturnsTopmostUnghosted ==
    watch.point # Null =>
        LET point == The(watch.point)
            eligible == {i \in 1..Len(state) : Eligible(state[i], point)}
        IN /\ eligible = {} => watch.result = Null
           /\ eligible # {} => watch.result = Some(state[SetMax(eligible)])
           /\ watch.result # Null =>
                  The(watch.result).id \notin ghostedItemIds(app)

\* the topmost item holds the point and is ghosted, and the one below is
\* returned
C15_Witness ==
    /\ watch.point # Null
    /\ watch.result # Null
    /\ Len(state) = 2
    /\ state[2].id \in ghostedItemIds(app)
    /\ PointHitsItem(The(watch.point), state[2])
    /\ watch.result = Some(state[1])

----------------------------------------------------------------------------
(* Properties of resizing, stated over SpecGesture *)

\* the item under the control box, as the collection now holds it
ResizedNow ==
    LET at == {i \in 1..Len(state) : state[i].id = The(canvas.currentItem).id}
    IN state[SetMin(at)]

\* a resize gesture on an image, text or video item, with at least one
\* pointer-move accepted and nothing else in between
ResizeUnderWay ==
    /\ canvas.interactionMode = "resizing"
    /\ canvas.gestureDidCommit
    /\ watch.phase = "active"
    /\ watch.clean
    /\ The(canvas.currentItem).type \in {"image", "text", "video"}

\* C16: during a resize gesture on an image, text or video item, after
\* every accepted pointer-move the item still has a corner at the canvas
\* position where the corner opposite the dragged handle was at gesture
\* start, with or without the aspect-lock modifier.
C16_OppositeCornerStays ==
    ResizeUnderWay =>
        LET box == getBoundingBox(ResizedNow)
        IN The(canvas.originalItemState).oppositeCorner \in
               RotatedCorners(box, getCenter(box), ResizedNow.rotation)

\* the width and height e's pointer position asks of the resized item:
\* its distance from the anchor along the item's own axes
AskedSize(e) ==
    LET orig == The(canvas.originalItemState)
    IN ResizeDims(orig, getCanvasPoint(World, e), e.shiftKey)

\* C17: interactive resize never leaves an image, text or video item with
\* width or height below 10: a pointer-move whose computed width or height
\* is below 10 leaves the item collection and the history unchanged, and
\* after any pointer-move of the gesture the item is at least 10 by 10.
C17_ResizeFloor ==
    [][\A e \in PointerEvents :
          (/\ canvas.interactionMode = "resizing"
           /\ canvas.currentItem # Null
           /\ The(canvas.currentItem).type \in {"image", "text", "video"}
           /\ MouseMove(e))
          => /\ (AskedSize(e).width < 10 \/ AskedSize(e).height < 10)
                    => history' = history /\ index' = index
             /\ \A i \in 1..Len(state') :
                    state'[i].id = The(canvas.currentItem).id
                        => state'[i].width >= 10 /\ state'[i].height >= 10]_vars

\* a resize gesture one of whose pointer-moves asked for less than the floor
C17_Witness ==
    /\ watch.phase = "active"
    /\ watch.kind = "resizing"
    /\ watch.rejected
    /\ The(canvas.currentItem).type = "image"

----------------------------------------------------------------------------
(* Properties of mask painting, stated over SpecMagicFill *)

IsMask(item) == item.id[1] = "mask"

\* C18: a magic-fill mask-painting gesture (pointer-down inside the target,
\* pointer-moves, pointer-up or pointer-leave) never changes the history
\* store: entries, index, canUndo and canRedo are the same before and
\* after, and the mask drawing never appears in the item collection.
C18_MaskPaintingLeavesHistory ==
    /\ (/\ watch.kind = "magicFill"
        /\ watch.phase \in {"active", "ended", "left"}
        /\ watch.clean)
           => LET d == The(watch.downStore)
              IN /\ history = d.history
                 /\ index = d.index
                 /\ canUndo = (d.index > 0)
                 /\ canRedo = (d.index < Len(d.history) - 1)
    /\ \A k \in 1..Len(history) :
           \A i \in 1..Len(history[k]) : ~IsMask(history[k][i])

\* a finished mask-painting gesture with at least one pointer-move, on a
\* store that can undo
C18_Witness ==
    /\ watch.kind = "magicFill"
    /\ watch.phase = "ended"
    /\ watch.clean
    /\ app.magicFillState.maskDrawing # Null
    /\ Len(The(app.magicFillState.maskDrawing).points) >= 2
    /\ canUndo

----------------------------------------------------------------------------
(* Properties of generation, stated over SpecTasks *)

\* the store and the pending preview are after the step what they were
StoreUntouched ==
    /\ history' = history
    /\ index' = index
    /\ app'.imagePreview = app.imagePreview

\* the task entries a call writes to
EntriesOf(ts, r) == {k \in 1..Len(ts) : ts[k].id = r.taskId}

\* the step is the i-th call's last and leaves its task in error: the
\* promise it awaited was rejected, or the prompt it was given back was
\* blank
Fails(i) ==
    \/ Reject(i)
    \/ /\ \E value \in Answers : Resolve(i, value)
       /\ Len(running') < Len(running)
       /\ \A k \in EntriesOf(tasks', running[i]) : tasks'[k].status = "error"

\* the step is one of the i-th call's and leaves it suspended
GoesOn(i) ==
    /\ Reject(i) \/ \E value \in Answers : Resolve(i, value)
    /\ Len(running') = Len(running)

\* C19: a failed generation leaves the item collection and the history
\* untouched.  The step in which a call of an image, video, magic-fill or
\* expansion function fails changes neither the history store nor the
\* pending preview, and neither does any earlier step of a call, that is
\* any step that leaves the call suspended at a further await.
C19_FailedTaskLeavesItems ==
    [][\A i \in 1..Len(running) :
          (Fails(i) \/ GoesOn(i)) => StoreUntouched]_vars

\* a magic fill has failed at its last call to the collaborator, while the
\* collection is still the initial one
C19_Witness ==
    /\ \E k \in 1..Len(tasks) :
          /\ tasks[k].type = "magic-fill"
          /\ tasks[k].status = "error"
          /\ tasks[k].error # Null
          /\ Len(tasks[k].log) = 6
    /\ running = <<>>
    /\ state = InitialItems

\* interpreting, then generating, then one of the two final statuses
Rank(status) ==
    CASE status = "interpreting" -> 0
      [] status = "generating" -> 1
      [] status \in {"completed", "error"} -> 2

\* C20: a task's status only moves forward along interpreting, generating,
\* completed or error, and a completed or failed task keeps its status.
\* In every step, every task of the list has afterwards a status of at
\* least the rank it had, and the same status if it was completed or error.
C20_StatusForwardOnly ==
    [][\A k \in 1..Len(tasks) :
          LET before == tasks[k].status
              after == tasks'[k + Len(tasks') - Len(tasks)].status
          IN /\ Rank(after) >= Rank(before)
             /\ Rank(before) = 2 => after = before]_vars

\* p is a prefix of q
IsPrefix(p, q) == Len(p) <= Len(q) /\ SubSeq(q, 1, Len(p)) = p

\* the step is one of the i-th call's
StepOf(i) ==
    \/ Reject(i)
    \/ \E value \in Answers : Resolve(i, value)
    \/ \E size \in VideoSizes : Load(i, size)

C22_ErrorIsTerminal ==
    [][/\ \A i \in 1..Len(running) :
             (running[i].pc \in AiCalls /\ Reject(i)) =>
                 /\ Len(running') = Len(running) - 1
                 /\ \A k \in EntriesOf(tasks', running[i]) :
                        /\ tasks'[k].status = "error"
                        /\ tasks'[k].error # Null
                        /\ tasks'[k].log[Len(tasks'[k].log)] = "result"
       /\ \A k \in 1..Len(tasks) :
             tasks[k].status = "error" =>
                 tasks'[k + Len(tasks') - Len(tasks)] = tasks[k]]_vars

\* the ids of the items a call works on
TargetsOf(r) ==
    IdsOf(r.itemsForTask)
    \cup (IF r.targetItem = Null THEN {} ELSE {The(r.targetItem).id})

\* a generation for one of the items `ids` is pending: its function is in
\* flight, or its preview awaits confirmation
PendingFor(ids) ==
    \/ \E i \in 1..Len(running) : TargetsOf(running[i]) \cap ids # {}
    \/ /\ app.imagePreview # Null
       /\ IdsOf(The(app.imagePreview).itemsToReplace) \cap ids # {}

\* C23: a second submission made while an earlier one for the same target
\* is pending is rejected: it creates no task and calls no collaborator.
\* A press of Generate on the selection bar, for a selection holding an
\* item that a pending generation works on, leaves the task list and the
\* functions in flight as they were.
C23_SecondSubmissionRejected ==
    [][\A generator \in {"image", "video"}, p \in BarPrompts :
          (/\ app.selectionRect # Null
           /\ PendingFor(IdsOf(app.selectedItems))
           /\ GenerateFromSelectionBar(generator, p))
          => tasks' = tasks /\ running' = running]_vars

----------------------------------------------------------------------------
(* Properties of the geometry functions, stated over SpecGeometry *)

\* C24: the bounding box of a drawing of at least one point is at least
\* strokeWidth wide and high, exactly strokeWidth both ways for a single
\* point, and every point of the drawing lies in it.
C24_DrawingBoxCoversStroke ==
    (/\ watch.op = "getBoundingBox"
     /\ watch.item.type = "drawing"
     /\ Len(watch.item.points) >= 1)
    => LET item == watch.item
           box == watch.result
       IN /\ box.width >= item.strokeWidth
          /\ box.height >= item.strokeWidth
          /\ Len(item.points) = 1 =>
                box.width = item.strokeWidth /\ box.height = item.strokeWidth
          /\ \A i \in 1..Len(item.points) : isPointInBox(item.points[i], box)

C24_Witness ==
    /\ watch.op = "getBoundingBox"
    /\ watch.item.type = "drawing"
    /\ Len(watch.item.points) = 1
    /\ watch.result.width = watch.item.strokeWidth
    /\ watch.result.width > 0

\* a drawing whose points span no width or no height
ZeroExtent(drawing) ==
    \/ Cardinality({drawing.points[i].x : i \in 1..Len(drawing.points)}) <= 1
    \/ Cardinality({drawing.points[i].y : i \in 1..Len(drawing.points)}) <= 1

\* C25: converting a drawing of zero extent in width or height, a single
\* point or a straight horizontal or vertical stroke, yields null.
C25_DegenerateDrawingDropped ==
    (watch.op = "convertDrawingToImageItem" /\ ZeroExtent(watch.item))
    => watch.result = Null

\* the closed boxes share no point
Disjoint(a, b) ==
    \/ a.x + a.width < b.x
    \/ b.x + b.width < a.x
    \/ a.y + a.height < b.y
    \/ b.y + b.height < a.y

\* every point of box a lies in box b
Within(a, b) ==
    /\ b.x <= a.x
    /\ a.x + a.width <= b.x + b.width
    /\ b.y <= a.y
    /\ a.y + a.height <= b.y + b.height

\* C26: isItemInSelection answers false for a rect disjoint from the item's
\* rotated bounding box and true for a rect that contains the box, whatever
\* the item and the rect, boxes of no width or height included.
C26_SelectionTestDisjointAndContained ==
    watch.op = "isItemInSelection"
    => LET itemBox == getRotatedBoundingBox(watch.item)
           rect == The(watch.rect)
       IN /\ Disjoint(itemBox, rect) => watch.result = FALSE
          /\ Within(itemBox, rect) => watch.result = TRUE

----------------------------------------------------------------------------
(* Properties of item identity, stated over SpecGesture *)

\* C27: the items of the collection have pairwise distinct ids in every
\* reachable state, items created within one millisecond included.
C27_ItemIdsDistinct == DistinctIds(Items(World))

----------------------------------------------------------------------------
(* Properties of persistence, stated over SpecStorage *)

HasVideo(items) == \E i \in 1..Len(items) : items[i].type = "video"

----------------------------------------------------------------------------
(* Properties of moving and resizing, stated over SpecTransform *)

\* item shifted by (dx, dy), a drawing point by point
Translated(item, dx, dy) ==
    IF item.type = "drawing"
    THEN [item EXCEPT !.points =
            [i \in 1..Len(item.points) |->
                Point(item.points[i].x + dx, item.points[i].y + dy)]]
    ELSE [item EXCEPT !.x = @ + dx, !.y = @ + dy]

\* the pointer-move e is a step of a move gesture
MoveStep(e) ==
    /\ canvas.interactionMode = "moving"
    /\ canvas.currentItem # Null
    /\ canvas.startPoint # Null
    /\ canvas.originalItemState # Null
    /\ MouseMove(e)

\* C29: with the grid hidden, after each pointer-move of a move gesture the
\* moved item is its pointer-down snapshot shifted by the pointer's travel
\* since pointer-down, every point of a drawing by the same amount, and no
\* other item has changed.
C29_MoveIsSnapshotTranslated ==
    [][\A e \in TransformEvents :
          MoveStep(e) =>
            LET point == getCanvasPoint(World, e)
                dx == point.x - The(canvas.startPoint).x
                dy == point.y - The(canvas.startPoint).y
            IN /\ Len(state') = Len(state)
               /\ \A i \in 1..Len(state) :
                     IF state[i].id = The(canvas.currentItem).id
                     THEN state'[i] =
                            Translated(The(canvas.originalItemState), dx, dy)
                     ELSE state'[i] = state[i]]_vars

\* item with the place of snapshot shifted by (dx, dy): x and y, or the
\* points of a drawing; everything else is item's own
PlacedAt(item, snapshot, dx, dy) ==
    IF snapshot.type = "drawing"
    THEN [item EXCEPT !.points = Translated(snapshot, dx, dy).points]
    ELSE [item EXCEPT !.x = snapshot.x + dx, !.y = snapshot.y + dy]

\* C29 (amended): with the grid hidden, after each pointer-move of a move
\* gesture the moved item has the place of its pointer-down snapshot shifted
\* by the pointer's travel since pointer-down, every point of a drawing by
\* the same amount, whatever the earlier pointer-moves were; its other
\* fields are those the collection held for it before the step, and no
\* other item has changed.
C29_MoveTranslatesSnapshotPlace ==
    [][\A e \in TransformEvents :
          MoveStep(e) =>
            LET point == getCanvasPoint(World, e)
                dx == point.x - The(canvas.startPoint).x
                dy == point.y - The(canvas.startPoint).y
            IN /\ Len(state') = Len(state)
               /\ \A i \in 1..Len(state) :
                     IF state[i].id = The(canvas.currentItem).id
                     THEN state'[i] =
                            PlacedAt(state[i], The(canvas.originalItemState),
                                     dx, dy)
                     ELSE state'[i] = state[i]]_vars

\* a second step of a move of the drawing has left it off its snapshot
C29_Witness ==
    /\ canvas.interactionMode = "moving"
    /\ canvas.gestureDidCommit
    /\ canvas.originalItemState # Null
    /\ The(canvas.originalItemState).type = "drawing"
    /\ watch.phase = "active"
    /\ nEvents >= 3
    /\ \E i \in 1..Len(state) :
          /\ state[i].id = The(canvas.originalItemState).id
          /\ state[i] # The(canvas.originalItemState)
          /\ state[i] = Translated(The(canvas.originalItemState), 12, 12)

\* the pointer-move e is an accepted step of a resize gesture on a drawing
DrawingResizeStep(e) ==
    /\ canvas.interactionMode = "resizing"
    /\ canvas.currentItem # Null
    /\ canvas.startPoint # Null
    /\ canvas.activeHandle # Null
    /\ The(canvas.originalItemState).item.type = "drawing"
    /\ ~BelowFloor(e)
    /\ MouseMove(e)

\* C30: after each accepted pointer-move of a resize gesture on a drawing
\* its points are the pointer-down points scaled about the pointer-down box
\* centre by (newWidth / origWidth, newHeight / origHeight) and re-centred
\* on the new centre, whatever the earlier pointer-moves of the gesture.
C30_DrawingResizeScalesSnapshot ==
    [][\A e \in TransformEvents :
          DrawingResizeStep(e) =>
            LET orig == The(canvas.originalItemState)
                point == getCanvasPoint(World, e)
                dims == ResizeDims(orig, point, e.shiftKey)
                newCenter == Point(Half(orig.oppositeCorner.x + point.x),
                                   Half(orig.oppositeCorner.y + point.y))
            IN \A i \in 1..Len(state') :
                  state'[i].id = orig.item.id =>
                    /\ Len(state'[i].points) = Len(orig.item.points)
                    /\ \A k \in 1..Len(orig.item.points) :
                          /\ (state'[i].points[k].x - newCenter.x) * orig.box.width
                             = (orig.item.points[k].x - orig.center.x) * dims.width
                          /\ (state'[i].points[k].y - newCenter.y) * orig.box.height
                             = (orig.item.points[k].y - orig.center.y) * dims.height]_vars

----------------------------------------------------------------------------
(* Properties of gesture entry, stated over SpecGesture *)

\* what a gesture captured at its pointer-down, and its commit flag
Captured(c) ==
    <<c.interactionMode, c.startPoint, c.currentItem, c.originalItemState,
      c.activeHandle, c.gestureDidCommit>>

\* C31: a pointer-down that arrives while a gesture is active, on the canvas
\* or on a handle of the control box, changes neither the mode nor what the
\* gesture captured, its commit flag included.
C31_PointerDownDuringGestureIgnored ==
    [][/\ \A e \in PlainEvents :
            (canvas.interactionMode # "none" /\ MouseDown(e))
            => Captured(canvas') = Captured(canvas)
       /\ \A e \in PlainEvents, h \in Handles :
            (canvas.interactionMode # "none" /\ HandleMouseDown(e, h))
            => Captured(canvas') = Captured(canvas)]_vars

----------------------------------------------------------------------------
(* Properties of moving on the grid, stated over SpecSnap *)

OnGrid(n) == n % app.gridOptions.spacing = 0

\* the points of moved are those of snapshot shifted by one common delta
CommonDelta(moved, snapshot) ==
    /\ Len(moved.points) = Len(snapshot.points)
    /\ \A k \in 1..Len(snapshot.points) :
          /\ moved.points[k].x - snapshot.points[k].x
             = moved.points[1].x - snapshot.points[1].x
          /\ moved.points[k].y - snapshot.points[k].y
             = moved.points[1].y - snapshot.points[1].y

\* C32: with the grid visible, after a move step without Shift an image,
\* text or video item's x and y are multiples of the spacing, and a
\* drawing's bounding-box corner is on the grid with all its points shifted
\* by one common delta; with Shift held the place is the snapshot's shifted
\* by the pointer's travel, unrounded.
C32_MoveSnapsToGrid ==
    [][\A e \in SnapEvents :
          (app.gridOptions.isVisible /\ MoveStep(e)) =>
            LET snap == The(canvas.originalItemState)
                point == getCanvasPoint(World, e)
                dx == point.x - The(canvas.startPoint).x
                dy == point.y - The(canvas.startPoint).y
            IN \A i \in 1..Len(state) :
                 state[i].id = The(canvas.currentItem).id =>
                   IF e.shiftKey
                   THEN state'[i] = PlacedAt(state[i], snap, dx, dy)
                   ELSE IF snap.type = "drawing"
                   THEN /\ OnGrid(getBoundingBox(state'[i]).x)
                        /\ OnGrid(getBoundingBox(state'[i]).y)
                        /\ CommonDelta(state'[i], snap)
                   ELSE OnGrid(state'[i].x) /\ OnGrid(state'[i].y)]_vars

\* the drawing, whose box was off the grid, has been moved onto it, and the
\* image has been left off the grid by a move with Shift held
C32_Witness ==
    /\ app.gridOptions.isVisible
    /\ canvas.interactionMode = "moving"
    /\ canvas.gestureDidCommit
    /\ The(canvas.originalItemState).type = "drawing"
    /\ ~OnGrid(getBoundingBox(The(canvas.originalItemState)).x)
    /\ OnGrid(getBoundingBox(state[2]).x)
    /\ state[2] # The(canvas.originalItemState)
    /\ ~OnGrid(state[1].x)

----------------------------------------------------------------------------
(* Properties of expanding, stated over SpecExpand *)

\* the edges a handle names
Names(handle, edge) ==
    CASE edge = "n" -> handle \in {"n", "nw", "ne"}
      [] edge = "s" -> handle \in {"s", "sw", "se"}
      [] edge = "e" -> handle \in {"e", "ne", "se"}
      [] edge = "w" -> handle \in {"w", "nw", "sw"}

\* C33: during an expanding gesture the ghost rect contains the target's
\* original box; an edge the dragged handle does not name is on the
\* original box, and an edge it names is on it or outside it.
C33_GhostContainsOriginalBox ==
    (/\ canvas.interactionMode = "expanding"
     /\ canvas.expansionGhostRect # Null
     /\ canvas.activeHandle # Null
     /\ canvas.originalItemState # Null)
    => LET ghost == The(canvas.expansionGhostRect)
           box == The(canvas.originalItemState).box
           h == The(canvas.activeHandle)
       IN /\ Within(box, ghost)
          /\ ~Names(h, "n") => ghost.y = box.y
          /\ ~Names(h, "w") => ghost.x = box.x
          /\ ~Names(h, "s") => ghost.y + ghost.height = box.y + box.height
          /\ ~Names(h, "e") => ghost.x + ghost.width = box.x + box.width

----------------------------------------------------------------------------
(* Properties of the snapshot, stated over SpecSnapshot *)

\* the item has something to put on the snapshot
Drawable(item, loaded) ==
    CASE item.type \in {"image", "video"} -> item.id \in loaded
      [] item.type = "drawing" -> Len(item.points) >= 2
      [] OTHER -> TRUE

\* the items of the collection that overlap the rect and are drawable, each
\* under its own rotation, in the collection's order
RECURSIVE ExpectedDrawn(_, _, _)
ExpectedDrawn(items, rect, loaded) ==
    IF items = <<>> THEN <<>>
    ELSE (IF /\ Overlaps(getRotatedBoundingBox(Head(items)), rect)
             /\ Drawable(Head(items), loaded)
          THEN <<DrawOp(Head(items), OwnTransform(Head(items)))>> ELSE <<>>)
         \o ExpectedDrawn(Tail(items), rect, loaded)

C35_NonEditingGesturesLeaveStore ==
    CompletedGesture({"selecting", "panning", "expanding"})
    => store = The(watch.downStore)

\* an expanding gesture has ended with an area larger than the image
C35_Witness ==
    /\ CompletedGesture({"expanding"})
    /\ app.expansionGenerationInfo # Null
    /\ The(app.expansionGenerationInfo).rect.width > InitialItems[1].width
    /\ store = The(watch.downStore)

----------------------------------------------------------------------------
(* Specification of a magic-fill request in flight: the image and the      *)
(* drawing of SpecTransform, the image selected, the magic-fill mode       *)
(* entered from the toolbar and a mask painted; the bar's submission, the  *)
(* steps of the function it starts, and pointer gestures on the canvas.    *)

FillApp ==
    onMaskUpdate(
        SetMagicFillMode([InitApp EXCEPT
                             !.selectionRect = Some(Box(0, 0, 20, 20)),
                             !.selectedItems = <<TransformItems[1]>>]),
        Some(MaskDrawing))

FillPoints == {Point(10, 10), Point(50, 50), Point(62, 62)}

FillEvents ==
    {[clientX |-> p.x, clientY |-> p.y, button |-> 0, shiftKey |-> FALSE,
      now |-> now] : p \in FillPoints}

InitFill ==
    /\ useHistory(TransformItems)
    /\ calls = <<>>
    /\ tasks = <<>>
    /\ running = <<>>
    /\ canvas = InitCanvas
    /\ app = FillApp
    /\ now = 0
    /\ watch = Idle
    /\ nEvents = 0

NextFill ==
    \/ \E p \in FillPrompts : StartMagicFillGeneration(p)
    \/ \E i \in 1..Len(running), value \in Answers : Resolve(i, value)
    \/ \E i \in 1..Len(running) : Reject(i)
    \/ \E i \in 1..Len(running), size \in VideoSizes : Load(i, size)
    \/ \E e \in FillEvents : MouseDown(e)
    \/ \E e \in FillEvents : MouseMove(e)
    \/ \E e \in FillEvents : MouseUp(e)

SpecFill == InitFill /\ [][NextFill]_vars

----------------------------------------------------------------------------
(* The context menu's order commands and the Delete key: three images      *)
(* side by side; a right click opens the menu on the item under the        *)
(* pointer, or on none, and the menu stays open until one of its commands  *)
(* runs or the pointer goes down outside it, while the keyboard is live.   *)

\* Canvas.handleContextMenu
handleContextMenu(w, e) ==
    LET point == getCanvasPoint(w, e)
        item == findItemAtPoint(w, point)
        shown == [w EXCEPT !.app.contextMenu =
                               Some([item |-> item, canvasPoint |-> point])]
    IN IF \/ w.canvas.editingTextItem # Null
          \/ w.app.isDrawingMode \/ w.app.isTextMode
          \/ w.app.expansionState.isActive
       THEN w
       ELSE IF item = Null THEN shown
       ELSE [shown EXCEPT
                !.app = handleSelectionChange(w.app, @, Null, <<The(item)>>),
                !.canvas.singlySelectedItemId = Some(The(item).id)]

bringToFront(w) ==
    IF w.app.contextMenu = Null THEN w
    ELSE IF The(w.app.contextMenu).item = Null THEN w
    ELSE LET item == The(The(w.app.contextMenu).item)
         IN [setItems(w, Append(WithoutIds(Items(w), {item.id}), item), TRUE)
                EXCEPT !.app.contextMenu = Null]

sendToBack(w) ==
    IF w.app.contextMenu = Null THEN w
    ELSE IF The(w.app.contextMenu).item = Null THEN w
    ELSE LET item == The(The(w.app.contextMenu).item)
         IN [setItems(w, <<item>> \o WithoutIds(Items(w), {item.id}), TRUE)
                EXCEPT !.app.contextMenu = Null]

deleteSelectedItems(w) ==
    IF w.app.selectedItems = <<>> THEN w
    ELSE [setItems(w, WithoutIds(Items(w), IdsOf(w.app.selectedItems)), TRUE)
             EXCEPT !.app.selectionRect = Null, !.app.selectedItems = <<>>]

OrderItems ==
    <<ImageItem(Id("img", 1), 0, 0, 20, 20, 0),
      ImageItem(Id("img", 2), 40, 0, 20, 20, 0),
      ImageItem(Id("img", 3), 80, 0, 20, 20, 0)>>

\* a point on each image, and one on none
OrderPoints == {Point(10, 10), Point(50, 10), Point(90, 10), Point(10, 50)}

OrderEvents ==
    {[clientX |-> p.x, clientY |-> p.y, button |-> 2, shiftKey |-> FALSE,
      now |-> now] : p \in OrderPoints}

InitOrder ==
    /\ useHistory(OrderItems)
    /\ calls = <<>>
    /\ tasks = <<>>
    /\ running = <<>>
    /\ canvas = InitCanvas
    /\ app = InitApp
    /\ now = 0
    /\ watch = Idle
    /\ nEvents = 0

orderFrame == <<now, watch, calls, tasks, running>>

ContextMenu(e) ==
    /\ Apply(handleContextMenu(World, e))
    /\ UNCHANGED orderFrame

\* a command of the menu can be clicked when the menu is open on an item
MenuOnItem ==
    /\ app.contextMenu # Null
    /\ The(app.contextMenu).item # Null
    /\ Len(history) <= MaxHist

BringToFront ==
    /\ MenuOnItem
    /\ Apply(bringToFront(World))
    /\ UNCHANGED orderFrame

SendToBack ==
    /\ MenuOnItem
    /\ Apply(sendToBack(World))
    /\ UNCHANGED orderFrame

\* the pointer goes down outside the menu
CloseContextMenu ==
    /\ app.contextMenu # Null
    /\ Apply([World EXCEPT !.app.contextMenu = Null])
    /\ UNCHANGED orderFrame

KeyDelete ==
    /\ Len(history) <= MaxHist
    /\ app.selectedItems # <<>>
    /\ Apply(deleteSelectedItems(World))
    /\ UNCHANGED orderFrame

NextOrder ==
    \/ \E e \in OrderEvents : ContextMenu(e)
    \/ BringToFront
    \/ SendToBack
    \/ CloseContextMenu
    \/ KeyDelete
    \/ KeyUndo
    \/ KeyRedo

SpecOrder == InitOrder /\ [][NextOrder]_vars

----------------------------------------------------------------------------
(* Specification of the tool modes: one image; the toolbar's three mode    *)
(* toggles, selections, pointer gestures on the canvas, a painted mask and *)
(* the magic-fill submission with the steps of the function it starts.     *)

\* a mutation of SetTextMode: the other modes are left as they are
SetTextMode_KeepOthers(a) == [a EXCEPT !.isTextMode = ~@]

\* the toolbar's text toggle, as a function of the App state
SetTextMode(a) ==
    IF ~a.isTextMode
    THEN [a EXCEPT !.isTextMode = TRUE, !.isDrawingMode = FALSE,
                   !.magicFillState.isActive = FALSE]
    ELSE [a EXCEPT !.isTextMode = FALSE]

handleSetTextMode ==
    /\ canvas.interactionMode = "none"
    /\ Event
    /\ app' = SetTextMode(app)
    /\ watch' = Idle
    /\ UNCHANGED <<history, index, canvas, now, calls, tasks, running>>

ModePoints == {Point(10, 10), Point(50, 50)}

ModeEvents ==
    {[clientX |-> p.x, clientY |-> p.y, button |-> 0, shiftKey |-> FALSE,
      now |-> now] : p \in ModePoints}

NextModes ==
    \/ handleSetDrawingMode
    \/ handleSetTextMode
    \/ handleSetMagicFillMode
    \/ \E rect \in Areas : SelectionChange(rect)
    \/ \E e \in ModeEvents : MouseDown(e)
    \/ \E e \in ModeEvents : MouseMove(e)
    \/ \E e \in ModeEvents : MouseUp(e)
    \/ MaskUpdate
    \/ \E p \in FillPrompts : StartMagicFillGeneration(p)
    \/ \E i \in 1..Len(running), value \in Answers : Resolve(i, value)
    \/ \E i \in 1..Len(running) : Reject(i)
    \/ \E i \in 1..Len(running), size \in VideoSizes : Load(i, size)

SpecModes == InitTasks /\ [][NextModes]_vars

----------------------------------------------------------------------------
(* Properties of previews and results, stated over SpecTasks *)

\* C36: a preview that awaits the user's answer is still the preview after
\* any step of a generation function, the decoding of another generated
\* image included.
C36_PendingPreviewKept ==
    [][\A i \in 1..Len(running) :
          (/\ app.imagePreview # Null
           /\ \/ \E size \in VideoSizes : Load(i, size)
              \/ \E value \in Answers : Resolve(i, value)
              \/ Reject(i))
          => app'.imagePreview = app.imagePreview]_vars

\* the calls that write to task k and whose result is still being decoded:
\* their onload / onloadedmetadata has not run yet
Undecoded(k) ==
    {i \in 1..Len(running) :
        running[i].taskId = tasks[k].id /\ running[i].pc \in Decoding}

\* C37: a task whose status is completed has had its result applied; no
\* call of that task is still waiting for its result to be decoded.
C37_CompletedMeansApplied ==
    \A k \in 1..Len(tasks) :
        tasks[k].status = "completed" => Undecoded(k) = {}

\* the collection differs from `before` in the content of the item with
\* the id `target` alone, which the result of task taskId has replaced:
\* same length and order, the target where and as it was but for its id
FilledInPlace(before, after, target, taskId) ==
    /\ Len(after) = Len(before)
    /\ \A k \in 1..Len(before) :
           after[k] = IF before[k].id = target
                      THEN [before[k] EXCEPT !.id = GenId("gen", taskId)]
                      ELSE before[k]

\* C38: when the result of a magic-fill request has been decoded, the
\* collection changes in the target's content alone: the target keeps the
\* place, size, rotation and position in the order it had just before, and
\* every other item is as it was just before.
C38_MagicFillReplacesInPlace ==
    [][\A i \in 1..Len(running), size \in VideoSizes :
          (running[i].kind = "magic-fill" /\ Load(i, size))
          => FilledInPlace(Items(World), Items(World)',
                           The(running[i].targetItem).id, running[i].taskId)]_vars

----------------------------------------------------------------------------
(* Properties of the order commands, stated over SpecOrder *)

Count(items, x) == Cardinality({k \in 1..Len(items) : items[k] = x})

\* b holds the items of a, each as often as a does
Permutation(a, b) ==
    /\ Len(a) = Len(b)
    /\ \A k \in 1..Len(a) : Count(b, a[k]) = Count(a, a[k])

\* the items of b are those of a, the one with the given id last in b
\* (toFront) or first, and the others in the order a has them in
Reordered(a, b, id, toFront) ==
    /\ Permutation(a, b)
    /\ b # <<>> /\ b[IF toFront THEN Len(b) ELSE 1].id = id
    /\ WithoutIds(b, {id}) = WithoutIds(a, {id})

\* C39: bring-to-front and send-to-back leave a permutation of the
\* collection they found, the menu's item last or first and the other
\* items in the order they had, whatever has happened to the item since
\* the menu was opened.
C39_OrderCommandsPermute ==
    [][/\ BringToFront
          => Reordered(Items(World), Items(World)',
                       The(The(app.contextMenu).item).id, TRUE)
       /\ SendToBack
          => Reordered(Items(World), Items(World)',
                       The(The(app.contextMenu).item).id, FALSE)]_vars

----------------------------------------------------------------------------
(* Properties of the tool modes, stated over SpecModes *)

ActiveModes ==
    {m \in {"draw", "text", "magic-fill"} :
        \/ m = "draw" /\ app.isDrawingMode
        \/ m = "text" /\ app.isTextMode
        \/ m = "magic-fill" /\ app.magicFillState.isActive}

\* C40: at most one of the draw mode, the text mode and the magic-fill
\* mode is active.
C40_AtMostOneMode == Cardinality(ActiveModes) <= 1

\* the text mode has been entered from the magic-fill mode, whose target
\* is still recorded
C40_Witness ==
    /\ app.isTextMode
    /\ app.magicFillState.targetItemId # Null

====
